---------------------------- MODULE Spec2Model ----------------------------
(***************************************************************************)
(* Verification model of ben1san/break_ecc.                                *)
(*                                                                         *)
(* The machines of this module:                                            *)
(*   SpecArith  the Fourier-domain arithmetic primitives of                *)
(*              src/src/general/arithmetic.py, as emitted gate lists and   *)
(*              their effect on computational-basis register values;       *)
(*   SpecEcc    the point-addition composer, the controlled addition gate  *)
(*              and the scalar-multiplication loop of src/src/general/     *)
(*              ecc.py (and the three stages of src/src/ecc.py);           *)
(*   SpecSolve  the classical post-processing solver solve_k, in its two   *)
(*              variants src/src/postprocessing.py and src/src/            *)
(*              verify_qday.py;                                            *)
(*   SpecShor   the circuit assembler construct_circuit of src/src/        *)
(*              general/shor_ecdlp.py and src/src/verify_qday.py;          *)
(*   SpecOracle the lookup-table oracle of src/src/qday_compiler.py;       *)
(*   SpecMult   the classical double-and-add routines of general/ecc.py    *)
(*              and postprocessing.py, called on the same input.           *)
(*                                                                         *)
(* Registers hold computational-basis values.  A QFT / phase rotations /   *)
(* inverse-QFT sandwich on a basis state |x> of an n-qubit register gives  *)
(* the basis state |x + val mod 2^n>; controls are basis bits of other     *)
(* registers.                                                              *)
(***************************************************************************)
EXTENDS Integers, Sequences, FiniteSets, TLC

VARIABLES
    \* ---- arithmetic machine
    N,          \* ModularArithmetic.N, the modulus
    wid,        \* register name -> number of qubits
    reg,        \* register name -> basis value
    exact,      \* register name -> the value the register would hold were it
                \* unbounded (the sum of the phase additions, never wrapped)
    circuit,    \* the QuantumCircuit's appended gate list (arithmetic machine)
    calls,      \* the primitive calls made so far: <<primitive, inverse, scalar>>
    marks,      \* length of circuit after each call
    outHist,    \* value of the output register initially and after each call
    \* ---- point-addition composer and scalar-multiplication loop
    driver,     \* "stages": the three composer stages called in turn;
                \* "loop": build_scalar_mult_circuit
    curveA,     \* ScalarMultiplication.a, the curve coefficient
    kval,       \* basis value of the selector register k_regs
    m,          \* len(k_regs)
    bitI,       \* the loop index i of build_scalar_mult_circuit
    current_Q,  \* the constant point of the current controlled addition
    pc,         \* position in the operation list of the current addition
    entry,      \* register values when the current addition started
    wrapHi,     \* some phase addition of the current addition passed 2^n - 1
    wrapLo,     \* some phase addition of the current addition went below 0
    \* ---- classical post-processing solver (ShorPostProcessor.solve_k)
    variant,    \* "postprocessing" (postprocessing.py) or "verify_qday" (verify_qday.py)
    order_r,    \* self.r, the curve order
    counts,     \* the histogram, in dict iteration order: <<bitstring, count>>
    point_P,    \* the base point
    point_Q,    \* the target point
    spc,        \* position in solve_k
    sorted_counts,     \* the histogram sorted by count, descending
    idx,               \* samples of sorted_counts handled so far
    candidates,        \* candidates / k_votes, in insertion order: <<k, weight>>
    sorted_candidates, \* verify_qday: the candidates sorted by weight, descending
    cidx,              \* verify_qday: candidates checked so far
    tried,             \* the candidates handed to the final verification, in order
    result,            \* what solve_k returns
    \* ---- the oracle assembler (ShorECDLP.construct_circuit)
    shor_file,         \* "shor_ecdlp" (general/shor_ecdlp.py) or "verify_qday" (verify_qday.py)
    num_ctrl_qubits,   \* the width of each selector register reg_a, reg_b
    base_P,            \* the argument point_P
    base_Q,            \* the argument point_Q
    initial_point_Z1,  \* the optional argument of shor_ecdlp.py (default 1)
    qc,                \* the operations appended to the circuit so far
    phase,             \* position in construct_circuit
    loop_i,            \* the index i of the running build_scalar_mult_circuit loop
    loop_Q,            \* its current_Q
    \* ---- the lookup-table oracle (QDayOptimizedSolver.create_oracle_circuit);
    \*      it uses N for self.p, curveA for self.a, and wid, reg for qa, qb, qx, qy
    table_P,           \* the argument point_P
    table_Q,           \* the argument point_Q
    n_ctrl,            \* the width of each selector register qa, qb
    a_val,             \* the loop variable a_val
    b_val,             \* the loop variable b_val
    ostep,             \* position in the body of the loop
    start_ab,          \* the basis values <<a, b>> of qa, qb before the oracle
    \* ---- the two classical double-and-add routines called on the same input
    mult_k,            \* the scalar k
    mult_point,        \* the point
    general_result,    \* what ScalarMultiplication._classical_scalar_mult returned
    post_result        \* what ShorPostProcessor._classical_point_mult returned

arithVars == <<circuit, calls, marks, outHist>>
eccVars == <<driver, curveA, kval, m, bitI, current_Q, pc, entry, wrapHi, wrapLo>>
solveVars == <<variant, order_r, counts, point_P, point_Q, spc, sorted_counts, idx,
               candidates, sorted_candidates, cidx, tried, result>>

shorVars == <<shor_file, num_ctrl_qubits, base_P, base_Q, initial_point_Z1, qc,
              phase, loop_i, loop_Q>>

oracleVars == <<table_P, table_Q, n_ctrl, a_val, b_val, ostep, start_ab>>

multVars == <<mult_k, mult_point, general_result, post_result>>

vars == <<N, wid, reg, exact, circuit, calls, marks, outHist,
          driver, curveA, kval, m, bitI, current_Q, pc, entry, wrapHi, wrapLo,
          variant, order_r, counts, point_P, point_Q, spc, sorted_counts, idx,
          candidates, sorted_candidates, cidx, tried, result,
          shor_file, num_ctrl_qubits, base_P, base_Q, initial_point_Z1, qc, phase,
          loop_i, loop_Q,
          table_P, table_Q, n_ctrl, a_val, b_val, ostep, start_ab,
          mult_k, mult_point, general_result, post_result>>

\* the solver does not run
SolveIdle ==
    /\ variant = "none" /\ order_r = 0 /\ counts = <<>> /\ point_P = <<0, 0>>
    /\ point_Q = <<0, 0>> /\ spc = "idle" /\ sorted_counts = <<>> /\ idx = 0
    /\ candidates = <<>> /\ sorted_candidates = <<>> /\ cidx = 0
    /\ tried = <<>> /\ result = 0

\* the assembler does not run
ShorIdle ==
    /\ shor_file = "none" /\ num_ctrl_qubits = 0 /\ base_P = <<0, 0>>
    /\ base_Q = <<0, 0>> /\ initial_point_Z1 = 0 /\ qc = <<>> /\ phase = "idle"
    /\ loop_i = 0 /\ loop_Q = <<0, 0>>

\* the lookup-table oracle does not run
OracleIdle ==
    /\ table_P = <<0, 0>> /\ table_Q = <<0, 0>> /\ n_ctrl = 0
    /\ a_val = 0 /\ b_val = 0 /\ ostep = "idle" /\ start_ab = <<0, 0>>

\* the routine has not been called
NotCalled == <<-3, -3>>

\* the two classical routines are not compared
MultIdle ==
    /\ mult_k = 0 /\ mult_point = <<0, 0>>
    /\ general_result = NotCalled /\ post_result = NotCalled

----------------------------------------------------------------------------
(* Bounds of the arithmetic machine *)
MaxIn == 3
MaxOut == 6

Moduli == {13}

----------------------------------------------------------------------------
(* Bits and gates *)

Bit(v, i) == (v \div (2^i)) % 2

\* _get_qft: the QFT gate (or its inverse) on a register
GetQft(r, inverse) ==
    [kind |-> IF inverse THEN "IQFT" ELSE "QFT", reg |-> r, ctrl |-> <<>>, val |-> 0]

\* cc_phase_add: PhiAdd(val) on target_reg, controlled by the qubits of ctrl_list;
\* val is used as passed, without any reduction mod N
CcPhaseAdd(ctrl_list, target_reg, val) ==
    [kind |-> "PhiAdd", reg |-> target_reg, ctrl |-> ctrl_list, val |-> val]

\* _get_phase_add on a register in the Fourier domain: qubit i gets the angle
\* 2 pi val / 2^(n-i), which maps QFT|x> to QFT|x + val mod 2^n>
GetPhaseAdd(n, x, val) == (x + val) % (2^n)

\* a plausible slip: the inverse flag does not reach the angles
SignIgnored(inverse) == 1

\* sign = -1 if inverse else 1
Sign(inverse) == IF inverse THEN -1 ELSE 1

RECURSIVE SquareRows(_, _, _, _, _, _)
SquareRows(modN, src, n_in, out, sign, i) ==
    IF i >= n_in THEN <<>>
    ELSE <<CcPhaseAdd(<< <<src, i>> >>, out, sign * ((2^(2*i)) % modN))>>
         \o [jj \in 1..(n_in - 1 - i) |->
               CcPhaseAdd(<< <<src, i>>, <<src, i + jj>> >>, out,
                          sign * ((2 * (2^(i + i + jj))) % modN))]
         \o SquareRows(modN, src, n_in, out, sign, i + 1)

\* a plausible slip: the inverse form forgets the sign on the cross terms
ModularSquareCrossSign(modN, w, src, out, inverse) ==
    <<GetQft(out, FALSE)>>
    \o [k \in 1..Len(SquareRows(modN, src, w[src], out, 1, 0)) |->
          LET g == SquareRows(modN, src, w[src], out, 1, 0)[k]
          IN  IF Len(g.ctrl) = 1 THEN [g EXCEPT !.val = Sign(inverse) * @] ELSE g]
    \o <<GetQft(out, TRUE)>>

\* a plausible slip: the cross terms lose their factor 2
ModularSquareSingleCross(modN, w, src, out, inverse) ==
    <<GetQft(out, FALSE)>>
    \o [k \in 1..Len(SquareRows(modN, src, w[src], out, 1, 0)) |->
          LET g == SquareRows(modN, src, w[src], out, Sign(inverse), 0)[k]
          IN  IF Len(g.ctrl) = 2
              THEN [g EXCEPT !.val = Sign(inverse)
                                       * ((2^(g.ctrl[1][2] + g.ctrl[2][2])) % modN)]
              ELSE g]
    \o <<GetQft(out, TRUE)>>

\* modular_square: the gates appended to the circuit
ModularSquare(modN, w, src, out, inverse) ==
    <<GetQft(out, FALSE)>>
    \o SquareRows(modN, src, w[src], out, Sign(inverse), 0)
    \o <<GetQft(out, TRUE)>>

RECURSIVE MultiplyRows(_, _, _, _, _, _, _)
MultiplyRows(modN, ra, n_a, rb, n_b, out, si) ==
    \* si = <<sign, i>>
    IF si[2] >= n_a THEN <<>>
    ELSE [jj \in 1..n_b |->
            CcPhaseAdd(<< <<ra, si[2]>>, <<rb, jj - 1>> >>, out,
                       si[1] * ((2^(si[2] + jj - 1)) % modN))]
         \o MultiplyRows(modN, ra, n_a, rb, n_b, out, <<si[1], si[2] + 1>>)

\* a plausible slip: the weight of the second operand's bit is left out
ModularGeneralMultiplyRowWeight(modN, w, ra, rb, out, inverse) ==
    <<GetQft(out, FALSE)>>
    \o [k \in 1..Len(MultiplyRows(modN, ra, w[ra], rb, w[rb], out, <<1, 0>>)) |->
          LET g == MultiplyRows(modN, ra, w[ra], rb, w[rb], out, <<1, 0>>)[k]
          IN  [g EXCEPT !.val = Sign(inverse) * ((2^(g.ctrl[1][2])) % modN)]]
    \o <<GetQft(out, TRUE)>>

\* modular_general_multiply
ModularGeneralMultiply(modN, w, ra, rb, out, inverse) ==
    <<GetQft(out, FALSE)>>
    \o MultiplyRows(modN, ra, w[ra], rb, w[rb], out, <<Sign(inverse), 0>>)
    \o <<GetQft(out, TRUE)>>

\* a plausible slip: every source bit adds the scalar itself, without its weight 2^i
ModularScalarMultNoWeight(modN, w, src, out, scalar, inverse) ==
    <<GetQft(out, FALSE)>>
    \o [ii \in 1..w[src] |->
          CcPhaseAdd(<< <<src, ii - 1>> >>, out, Sign(inverse) * (scalar % modN))]
    \o <<GetQft(out, TRUE)>>

\* modular_scalar_mult
ModularScalarMult(modN, w, src, out, scalar, inverse) ==
    <<GetQft(out, FALSE)>>
    \o [ii \in 1..w[src] |->
          CcPhaseAdd(<< <<src, ii - 1>> >>, out,
                     Sign(inverse) * ((scalar * (2^(ii - 1))) % modN))]
    \o <<GetQft(out, TRUE)>>

\* a plausible slip: the inverse form adds the subtrahend back mod N (a sign
\* flip of the logical constant) instead of negating the forward angles
ModularSubLogicalInverse(modN, w, src, target, inverse) ==
    <<GetQft(target, FALSE)>>
    \o [ii \in 1..w[src] |->
          CcPhaseAdd(<< <<src, ii - 1>> >>, target,
                     IF inverse THEN (2^(ii - 1)) % modN
                     ELSE (modN - (2^(ii - 1))) % modN)]
    \o <<GetQft(target, TRUE)>>

\* a plausible slip: the source is added instead of subtracted
ModularSubAddsSource(modN, w, src, target, inverse) ==
    <<GetQft(target, FALSE)>>
    \o [ii \in 1..w[src] |->
          CcPhaseAdd(<< <<src, ii - 1>> >>, target,
                     Sign(inverse) * ((2^(ii - 1)) % modN))]
    \o <<GetQft(target, TRUE)>>

\* modular_sub
ModularSub(modN, w, src, target, inverse) ==
    <<GetQft(target, FALSE)>>
    \o [ii \in 1..w[src] |->
          CcPhaseAdd(<< <<src, ii - 1>> >>, target,
                     Sign(inverse) * ((modN - (2^(ii - 1))) % modN))]
    \o <<GetQft(target, TRUE)>>

----------------------------------------------------------------------------
(* Execution of a gate list on basis values *)

Controlled(g, vals) ==
    \A c \in 1..Len(g.ctrl) : Bit(vals[g.ctrl[c][1]], g.ctrl[c][2]) = 1

\* st = [v |-> register values, f |-> registers currently in the Fourier domain,
\*       x |-> unwrapped sums,
\*       hi, lo |-> whether an unwrapped sum left 0..2^n-1 upwards, downwards]
ApplyGate(g, w, st) ==
    CASE g.kind = "QFT"  -> [st EXCEPT !.f = @ \cup {g.reg}]
      [] g.kind = "IQFT" -> [st EXCEPT !.f = @ \ {g.reg}]
      [] OTHER ->
           IF g.reg \in st.f /\ Controlled(g, st.v)
           THEN [st EXCEPT !.v[g.reg] = GetPhaseAdd(w[g.reg], @, g.val),
                           !.x[g.reg] = @ + g.val,
                           !.hi = @ \/ st.x[g.reg] + g.val >= 2^(w[g.reg]),
                           !.lo = @ \/ st.x[g.reg] + g.val < 0]
           ELSE st

\* the gates lo..hi applied in order (split in halves to keep the evaluation shallow)
RECURSIVE RunRange(_, _, _, _, _)
RunRange(gates, lo, hi, w, st) ==
    IF lo > hi THEN st
    ELSE IF lo = hi THEN ApplyGate(gates[lo], w, st)
    ELSE LET mid == (lo + hi) \div 2
             half == RunRange(gates, lo, mid, w, st)
         IN  IF half.f = half.f THEN RunRange(gates, mid + 1, hi, w, half) ELSE st

\* the gate list run on basis values
RunAll(gates, w, vals, ex) ==
    RunRange(gates, 1, Len(gates), w,
             [v |-> vals, f |-> {}, x |-> ex, hi |-> FALSE, lo |-> FALSE])

\* the basis values after the gate list has run
Run(gates, w, vals) == RunAll(gates, w, vals, vals).v

----------------------------------------------------------------------------
(* The arithmetic machine: one primitive call forward, then the same call    *)
(* with inverse=True, as test_square_and_uncompute does                      *)

ArithRegs == {"a", "b", "out"}

Primitives == {"square", "multiply", "scalar", "sub"}

Gates(prim, modN, w, scalar, inverse) ==
    CASE prim = "square"   -> ModularSquare(modN, w, "a", "out", inverse)
      [] prim = "multiply" -> ModularGeneralMultiply(modN, w, "a", "b", "out", inverse)
      [] prim = "scalar"   -> ModularScalarMult(modN, w, "a", "out", scalar, inverse)
      [] OTHER             -> ModularSub(modN, w, "a", "out", inverse)

\* test_modular_ops.py, Test 3: the target starts with 9
SubTargetStart == 9

\* the values the output register starts with: zero, all ones, and 9 where it fits
OutStart(n_out) == {0, 2^n_out - 1} \cup {v \in {SubTargetStart} : v < 2^n_out}

InitArith ==
    /\ N \in Moduli
    /\ \E n_in \in 1..MaxIn, n_out \in 1..MaxOut :
          wid = [r \in ArithRegs |-> IF r = "out" THEN n_out ELSE n_in]
    /\ \E x \in 0..(2^MaxIn - 1), y \in 0..(2^MaxIn - 1), o \in 0..(2^MaxOut - 1) :
          /\ x < 2^wid["a"]
          /\ y < 2^wid["b"]
          /\ o \in OutStart(wid["out"])
          /\ reg = [r \in ArithRegs |->
                      IF r = "a" THEN x ELSE IF r = "b" THEN y ELSE o]
    /\ exact = reg
    /\ circuit = <<>>
    /\ calls = <<>>
    /\ marks = <<>>
    /\ outHist = <<reg["out"]>>
    /\ driver = "none" /\ curveA = 0 /\ kval = 0 /\ m = 0 /\ bitI = 0
    /\ current_Q = <<0, 0>> /\ pc = 0 /\ entry = reg
    /\ wrapHi = FALSE /\ wrapLo = FALSE
    /\ SolveIdle /\ ShorIdle /\ OracleIdle /\ MultIdle

Append2(prim, scalar, inverse) ==
    LET gs == Gates(prim, N, wid, scalar, inverse)
        res == RunAll(gs, wid, reg, exact)
        nv == res.v
    IN  /\ circuit' = circuit \o gs
        /\ reg' = nv
        /\ exact' = res.x
        /\ calls' = Append(calls, <<prim, inverse, scalar>>)
        /\ marks' = Append(marks, Len(circuit) + Len(gs))
        /\ outHist' = Append(outHist, nv["out"])
        /\ UNCHANGED <<N, wid>>
        /\ UNCHANGED eccVars
        /\ UNCHANGED solveVars
        /\ UNCHANGED shorVars
        /\ UNCHANGED oracleVars
        /\ UNCHANGED multVars

\* the forward call
CallForward ==
    /\ Len(calls) = 0
    /\ \E prim \in Primitives, scalar \in {0, 4, 11} :
          /\ (prim # "scalar" => scalar = 0)
          /\ Append2(prim, scalar, FALSE)

\* the matching inverse=True call on the same registers
CallInverse ==
    /\ Len(calls) = 1
    /\ Append2(calls[1][1], calls[1][3], TRUE)

NextArith == CallForward \/ CallInverse

SpecArith == InitArith /\ [][NextArith]_vars

----------------------------------------------------------------------------
(* Properties of the arithmetic primitives                                 *)

\* the gates the i-th call appended to the circuit
CallGates(i) == SubSeq(circuit, IF i = 1 THEN 1 ELSE marks[i - 1] + 1, marks[i])

\* the adjoint of one gate
AdjointGate(g) ==
    CASE g.kind = "QFT"  -> [g EXCEPT !.kind = "IQFT"]
      [] g.kind = "IQFT" -> [g EXCEPT !.kind = "QFT"]
      [] OTHER           -> [g EXCEPT !.val = 0 - g.val]

\* the adjoint of a gate list: reversed order, each gate replaced by its adjoint
Adjoint(gs) == [k \in 1..Len(gs) |-> AdjointGate(gs[Len(gs) + 1 - k])]

\* the same gate list with every rotation angle negated, order kept
NegateAngles(gs) ==
    [k \in 1..Len(gs) |->
        IF gs[k].kind = "PhiAdd" THEN [gs[k] EXCEPT !.val = 0 - gs[k].val] ELSE gs[k]]

ForwardThenInverse == Len(calls) = 2 /\ ~calls[1][2] /\ calls[2][2]

\* C6: modular_square forward, then with inverse=True, on a zero output leaves
\* the output zero and the source unchanged, for every width and value
C6_SquareUncompute ==
    (ForwardThenInverse /\ calls[1][1] = "square" /\ entry["out"] = 0)
        => (reg["out"] = 0 /\ reg["a"] = entry["a"])

C6_Witness ==
    /\ ForwardThenInverse /\ calls[1][1] = "square" /\ entry["out"] = 0
    /\ outHist[2] # 0 /\ reg["out"] = 0 /\ reg["a"] = 2^MaxIn - 1

ForwardCall(prim) == Len(calls) = 1 /\ calls[1][1] = prim /\ ~calls[1][2]

\* the output register held every running sum of the call: no phase addition
\* left the range 0..2^n_out - 1
WideEnough == exact["out"] \in 0..(2^wid["out"] - 1)

\* C11 (as claimed): a circuit whose output register is too narrow for the
\* running sum of the operation is never produced (the call is rejected)
C11_NarrowOutputRejected ==
    (Len(calls) = 1 /\ ~calls[1][2]) => WideEnough

\* C18: modular_square on a zeroed output register that is wide enough for
\* the sum of the reduced terms leaves a value congruent to x^2 mod p
C18_SquareCongruent ==
    (ForwardCall("square") /\ entry["out"] = 0 /\ WideEnough)
        => /\ reg["out"] % N = (entry["a"] * entry["a"]) % N
           /\ reg["a"] = entry["a"]

\* test_modular_ops.py, Test 1: p = 13, x = 3, the output is congruent to 9
C18_Witness ==
    /\ ForwardCall("square") /\ entry["out"] = 0 /\ WideEnough
    /\ N = 13 /\ entry["a"] = 3 /\ reg["out"] % N = 9

\* C19: modular_scalar_mult with scalar k on a zeroed output register that is
\* wide enough for the sum leaves a value congruent to k * x mod p
C19_ScalarMultCongruent ==
    (ForwardCall("scalar") /\ entry["out"] = 0 /\ WideEnough)
        => /\ reg["out"] % N = (calls[1][3] * entry["a"]) % N
           /\ reg["a"] = entry["a"]

\* test_modular_ops.py, Test 2: p = 13, x = 3, k = 4, the output is congruent to 12
C19_Witness ==
    /\ ForwardCall("scalar") /\ entry["out"] = 0 /\ WideEnough
    /\ N = 13 /\ entry["a"] = 3 /\ calls[1][3] = 4 /\ reg["out"] % N = 12

\* C20: modular_sub on a target register that is wide enough for the sum
\* leaves the target congruent to t - s mod p and the source unchanged
C20_SubCongruent ==
    (ForwardCall("sub") /\ WideEnough)
        => /\ reg["out"] % N = (entry["out"] - entry["a"]) % N
           /\ reg["a"] = entry["a"]

\* test_modular_ops.py, Test 3: p = 13, t = 9, s = 3, the target is congruent to 6
C20_Witness ==
    /\ ForwardCall("sub") /\ WideEnough
    /\ N = 13 /\ entry["out"] = SubTargetStart /\ entry["a"] = 3
    /\ reg["out"] % N = 6 /\ reg["a"] = 3

\* C27: modular_general_multiply on a zeroed output register that is wide
\* enough for the sum of the reduced terms 2^(i+j) mod p leaves a value
\* congruent to a * b mod p and leaves both source registers unchanged
C27_MultiplyCongruent ==
    (ForwardCall("multiply") /\ entry["out"] = 0 /\ WideEnough)
        => /\ reg["out"] % N = (entry["a"] * entry["b"]) % N
           /\ reg["a"] = entry["a"] /\ reg["b"] = entry["b"]

\* p = 13, a = b = 7: all nine terms are added, the sum exceeds p and is
\* congruent to 49 = 10 mod 13
C27_Witness ==
    /\ ForwardCall("multiply") /\ entry["out"] = 0 /\ WideEnough
    /\ entry["a"] = 7 /\ entry["b"] = 7
    /\ reg["out"] >= N /\ reg["out"] % N = 10

\* C28: for each of the four primitives, the forward call followed by the
\* inverse=True call on the same registers restores the target register to
\* its value before the forward call, for every initial target value and
\* every width, also when the forward sum wrapped mod 2^width
C28_InverseRestoresTarget ==
    ForwardThenInverse =>
        /\ outHist[3] = outHist[1]
        /\ reg["out"] = entry["out"]

\* a 2-qubit target starting at 3, both sources 3: the forward sum of the
\* multiplication, 3 + 9, wraps to 0, and the target is 3 again after the inverse
C28_Witness ==
    /\ ForwardThenInverse /\ calls[1][1] = "multiply"
    /\ wid["out"] = 2 /\ entry["out"] = 3
    /\ entry["a"] = 3 /\ entry["b"] = 3
    /\ outHist[2] = 0 /\ reg["out"] = 3

----------------------------------------------------------------------------
(* Classical curve arithmetic of ScalarMultiplication (general/ecc.py)     *)

None == -1
\* the point at infinity, (None, None)
Inf == <<None, None>>
\* a ValueError raised by pow(x, -1, n) when x has no inverse mod n
ValueError == <<-2, -2>>

\* pow(x, -1, n); 0 stands for "raises ValueError" (no inverse exists)
ModInv(x, n) ==
    IF \E c \in 1..(n - 1) : (x * c) % n = 1
    THEN CHOOSE c \in 1..(n - 1) : (x * c) % n = 1
    ELSE 0

\* ScalarMultiplication._classical_point_doubling
ClassicalPointDoubling(point, p, a) ==
    LET x == point[1]
        y == point[2]
    IN  IF x = None \/ y = 0 THEN Inf
        ELSE LET numerator == (3 * x * x + a) % p
                 denominator == (2 * y) % p
                 inv == ModInv(denominator, p)
                 lam == (numerator * inv) % p
                 x3 == (lam * lam - 2 * x) % p
                 y3 == (lam * (x - x3) - y) % p
             IN  IF inv = 0 THEN ValueError ELSE <<x3, y3>>

\* ScalarMultiplication._classical_add
ClassicalAdd(p1, p2, modN, a) ==
    IF p1 = Inf THEN p2
    ELSE IF p2 = Inf THEN p1
    ELSE IF p1[1] = p2[1] /\ p1[2] = p2[2] THEN ClassicalPointDoubling(p1, modN, a)
    ELSE LET num == (p2[2] - p1[2]) % modN
             den == (p2[1] - p1[1]) % modN
             inv == ModInv(den, modN)
             lam == (num * inv) % modN
             x3 == (lam * lam - p1[1] - p2[1]) % modN
             y3 == (lam * (p1[1] - x3) - p1[2]) % modN
         IN  IF inv = 0 THEN ValueError ELSE <<x3, y3>>

\* k.bit_length()
RECURSIVE BitLength(_)
BitLength(k) == IF k = 0 THEN 0 ELSE 1 + BitLength(k \div 2)

RECURSIVE ScalarMultFrom(_, _, _, _, _, _)
ScalarMultFrom(k, i, current_P, res, p, a) ==
    IF res = ValueError \/ current_P = ValueError THEN ValueError
    ELSE IF i >= BitLength(k) THEN res
    ELSE ScalarMultFrom(k, i + 1, ClassicalPointDoubling(current_P, p, a),
                        IF Bit(k, i) = 1 THEN ClassicalAdd(res, current_P, p, a)
                        ELSE res,
                        p, a)

\* ScalarMultiplication._classical_scalar_mult
ClassicalScalarMult(k, point, p, a) == ScalarMultFrom(k, 0, point, Inf, p, a)

\* the affine point (X Z^-2, Y Z^-3) mod N read off the measured registers
Affine(X, Y, Z, modN) ==
    LET X_proj == X % modN
        Y_proj == Y % modN
        Z_proj == Z % modN
        inv_z == ModInv(Z_proj, modN)
    IN  IF Z_proj = 0 THEN Inf
        ELSE <<(X_proj * (inv_z * inv_z)) % modN,
               (Y_proj * (inv_z * inv_z * inv_z)) % modN>>

----------------------------------------------------------------------------
(* The point-addition composer (QuantumECC) as an operation list           *)

EccRegs == {"X1", "Y1", "Z1", "T1", "T2", "T3", "T4", "T5", "T6", "T7", "T8"}
Ancillas == {"T1", "T2", "T3", "T4", "T5", "T6", "T7", "T8"}

Sq(src, out, inverse) ==
    [op |-> "square", a |-> src, b |-> src, out |-> out, k |-> 0, inv |-> inverse]
Mul(ra, rb, out, inverse) ==
    [op |-> "multiply", a |-> ra, b |-> rb, out |-> out, k |-> 0, inv |-> inverse]
SMul(src, out, scalar, inverse) ==
    [op |-> "scalar", a |-> src, b |-> src, out |-> out, k |-> scalar, inv |-> inverse]
Sub(src, target, inverse) ==
    [op |-> "sub", a |-> src, b |-> src, out |-> target, k |-> 0, inv |-> inverse]
SwapOut ==
    [op |-> "swap", a |-> "X1", b |-> "Y1", out |-> "Z1", k |-> 0, inv |-> FALSE]

\* a plausible slip: the two coordinates of the constant point are exchanged
CalculateHRSwappedCoordinates(const_point) ==
    << Sq("Z1", "T1", FALSE),
       SMul("T1", "T2", const_point[2], FALSE),
       Mul("Z1", "T1", "T3", FALSE),
       SMul("T3", "T4", const_point[1], FALSE),
       Sub("X1", "T2", FALSE),
       Sub("Y1", "T4", FALSE) >>

\* QuantumECC.calculate_H_R
CalculateHR(const_point) ==
    << Sq("Z1", "T1", FALSE),
       SMul("T1", "T2", const_point[1], FALSE),
       Mul("Z1", "T1", "T3", FALSE),
       SMul("T3", "T4", const_point[2], FALSE),
       Sub("X1", "T2", FALSE),
       Sub("Y1", "T4", FALSE) >>

\* a plausible slip: Z^2 is uncomputed before Z^3, which is computed from it
CalculateZ3AndCleanupSquareFirst ==
    << Sq("Z1", "T1", TRUE),
       Mul("Z1", "T1", "T3", TRUE),
       Mul("Z1", "T2", "T1", FALSE) >>

\* a plausible slip: Z^2 is uncomputed and Z3 is not written
CalculateZ3AndCleanupNoProduct ==
    << Mul("Z1", "T1", "T3", TRUE),
       Sq("Z1", "T1", TRUE),
       Mul("Z1", "T2", "T1", FALSE),
       Mul("Z1", "T2", "T1", TRUE) >>

\* QuantumECC.calculate_Z3_and_cleanup
CalculateZ3AndCleanup ==
    << Mul("Z1", "T1", "T3", TRUE),
       Sq("Z1", "T1", TRUE),
       Mul("Z1", "T2", "T1", FALSE) >>

\* QuantumECC.calculate_X3_Y3_and_final_cleanup, in its four commented steps;
\* Z3_reg = T1, H_reg = T2, H2_reg = T3, R_reg = T4, V_reg = T5,
\* X3_reg = T6, Y3_reg = T7, tmp_reg = T8

\* Step 1: compute H^2, V
Step1ComputeH2V ==
    << Sq("T2", "T3", FALSE),
       Mul("X1", "T3", "T5", FALSE) >>

\* a plausible slip: V is subtracted once instead of twice
Step2SingleV ==
    << Sq("T4", "T6", FALSE),
       Mul("T2", "T3", "T6", TRUE),
       Sub("T5", "T6", FALSE) >>

\* Step 2: compute X3 = R^2 - H^3 - 2V
Step2ComputeX3 ==
    << Sq("T4", "T6", FALSE),
       Mul("T2", "T3", "T6", TRUE),
       Sub("T5", "T6", FALSE),
       Sub("T5", "T6", FALSE) >>

\* Step 3: compute Y3 = R (V - X3) - Y1 H^3, the last term via tmp = Y1 H
Step3ComputeY3 ==
    << Sub("T6", "T5", FALSE),
       Mul("T4", "T5", "T7", FALSE),
       Mul("Y1", "T2", "T8", FALSE),
       Mul("T8", "T3", "T7", TRUE),
       Mul("Y1", "T2", "T8", TRUE) >>

\* a plausible slip: V is uncomputed without first being restored from V - X3
Step4NoRestoreV(const_point) ==
    << Mul("X1", "T3", "T5", TRUE),
       Sq("T2", "T3", TRUE),
       Sub("Y1", "T4", TRUE),
       Sub("X1", "T2", TRUE),
       Sq("Z1", "T8", FALSE),
       Mul("Z1", "T8", "T5", FALSE),
       SMul("T5", "T4", const_point[2], TRUE),
       SMul("T8", "T2", const_point[1], TRUE),
       Mul("Z1", "T8", "T5", TRUE),
       Sq("Z1", "T8", TRUE) >>

\* Step 4: global cleanup
Step4GlobalCleanup(const_point) ==
    << Sub("T6", "T5", TRUE),
       Mul("X1", "T3", "T5", TRUE),
       Sq("T2", "T3", TRUE),
       Sub("Y1", "T4", TRUE),
       Sub("X1", "T2", TRUE),
       Sq("Z1", "T8", FALSE),
       Mul("Z1", "T8", "T5", FALSE),
       SMul("T5", "T4", const_point[2], TRUE),
       SMul("T8", "T2", const_point[1], TRUE),
       Mul("Z1", "T8", "T5", TRUE),
       Sq("Z1", "T8", TRUE) >>

CalculateX3Y3AndFinalCleanup(const_point) ==
    Step1ComputeH2V \o Step2ComputeX3 \o Step3ComputeY3
    \o Step4GlobalCleanup(const_point)

\* the three stages, as test_full_addition_and_cleanup calls them
Stages(const_point) ==
    CalculateHR(const_point) \o CalculateZ3AndCleanup
    \o CalculateX3Y3AndFinalCleanup(const_point)

\* ScalarMultiplication.create_controlled_add_gate: the three stages, then the
\* SWAP of (X3, Y3, Z3) into the operand registers
CreateControlledAddGate(const_point) == Stages(const_point) \o <<SwapOut>>

Program == IF driver = "stages" THEN Stages(current_Q)
           ELSE CreateControlledAddGate(current_Q)

\* a plausible slip: the gate is appended without its control qubit
ControlDropped == TRUE

\* the gate is the 1-control variant: the selector qubit k_regs[i] controls it
Control == driver = "stages" \/ Bit(kval, bitI) = 1

OpGates(o) ==
    CASE o.op = "square"   -> ModularSquare(N, wid, o.a, o.out, o.inv)
      [] o.op = "multiply" -> ModularGeneralMultiply(N, wid, o.a, o.b, o.out, o.inv)
      [] o.op = "scalar"   -> ModularScalarMult(N, wid, o.a, o.out, o.k, o.inv)
      [] OTHER             -> ModularSub(N, wid, o.a, o.out, o.inv)

\* for i in range(n): swap(X1[i], X3_reg[i]); swap(Y1[i], Y3_reg[i]); swap(Z1[i], Z3_reg[i])
SwapRegs(vals) ==
    [vals EXCEPT !["X1"] = vals["T6"], !["T6"] = vals["X1"],
                 !["Y1"] = vals["T7"], !["T7"] = vals["Y1"],
                 !["Z1"] = vals["T1"], !["T1"] = vals["Z1"]]

Running == driver \in {"stages", "loop"} /\ bitI < m /\ pc <= Len(Program)

\* the operation at pc acts on the registers (only if the control qubit is 1)
ApplyOp ==
    /\ LET res == RunAll(OpGates(Program[pc]), wid, reg, exact)
       IN  IF ~Control
           THEN UNCHANGED <<reg, exact, wrapHi, wrapLo>>
           ELSE IF Program[pc].op = "swap"
           THEN /\ reg' = SwapRegs(reg)
                /\ exact' = SwapRegs(exact)
                /\ UNCHANGED <<wrapHi, wrapLo>>
           ELSE /\ reg' = res.v
                /\ exact' = res.x
                /\ wrapHi' = (wrapHi \/ res.hi)
                /\ wrapLo' = (wrapLo \/ res.lo)
    /\ pc' = pc + 1
    /\ UNCHANGED <<N, wid, driver, curveA, kval, m, bitI, current_Q, entry>>
    /\ UNCHANGED arithVars
    /\ UNCHANGED solveVars
    /\ UNCHANGED shorVars
    /\ UNCHANGED oracleVars
    /\ UNCHANGED multVars

\* modular_square at pc
StepSquare == Running /\ Program[pc].op = "square" /\ ApplyOp

\* modular_general_multiply at pc
StepGeneralMultiply == Running /\ Program[pc].op = "multiply" /\ ApplyOp

\* modular_scalar_mult at pc
StepScalarMult == Running /\ Program[pc].op = "scalar" /\ ApplyOp

\* modular_sub at pc
StepSub == Running /\ Program[pc].op = "sub" /\ ApplyOp

\* the SWAP loop closing create_controlled_add_gate
StepSwap == Running /\ Program[pc].op = "swap" /\ ApplyOp

\* a plausible slip: the constant point is not doubled between the bits
NextBitNoDoubling ==
    /\ driver = "loop" /\ bitI < m /\ pc = Len(Program) + 1
    /\ bitI' = bitI + 1
    /\ pc' = 1
    /\ entry' = reg
    /\ wrapHi' = FALSE /\ wrapLo' = FALSE
    /\ exact' = reg
    /\ UNCHANGED <<N, wid, reg, driver, curveA, kval, m, current_Q>>
    /\ UNCHANGED arithVars
    /\ UNCHANGED solveVars
    /\ UNCHANGED shorVars
    /\ UNCHANGED oracleVars
    /\ UNCHANGED multVars

\* build_scalar_mult_circuit: the gate for bit i is appended, then the constant
\* point is doubled for the next bit
NextBit ==
    /\ driver = "loop" /\ bitI < m /\ pc = Len(Program) + 1
    /\ current_Q' = ClassicalPointDoubling(current_Q, N, curveA)
    /\ bitI' = bitI + 1
    /\ pc' = 1
    /\ entry' = reg
    /\ wrapHi' = FALSE /\ wrapLo' = FALSE
    /\ exact' = reg
    /\ UNCHANGED <<N, wid, reg, driver, curveA, kval, m>>
    /\ UNCHANGED arithVars
    /\ UNCHANGED solveVars
    /\ UNCHANGED shorVars
    /\ UNCHANGED oracleVars
    /\ UNCHANGED multVars

----------------------------------------------------------------------------
(* Inputs of the composer machine *)

\* largest Z coordinate of the projective representatives tried
MaxZ == 2

\* y^2 = x^3 + a x + b (mod p)
CurvePoints(p, a, b) ==
    {pt \in (0..(p - 1)) \X (0..(p - 1)) :
        (pt[2] * pt[2]) % p = (pt[1] * pt[1] * pt[1] + a * pt[1] + b) % p}

\* the projective triple (x z^2, y z^3, z) mod p of an affine point
Projective(pt, z, p) == <<(pt[1] * z * z) % p, (pt[2] * z * z * z) % p, z>>

EccInitRegs(acc) ==
    [r \in EccRegs |-> IF r = "X1" THEN acc[1] ELSE IF r = "Y1" THEN acc[2]
                       ELSE IF r = "Z1" THEN acc[3] ELSE 0]

EccIdleArith == circuit = <<>> /\ calls = <<>> /\ marks = <<>> /\ outHist = <<>>

\* test_ecc_step3.py: p = 13, 4-qubit operands, 12-qubit ancilla registers
StageModulus == 13
StageCurveB == 7
StageNIn == 4
StageNAnc == 12

\* the accumulator test_full_addition_and_cleanup sets: P1 = (4, 8, 1)
StageP1 == <<4, 8, 1>>

\* the accumulators tried: P1 and the projective representatives of the
\* points of y^2 = x^3 + 7
StageAccumulators ==
    {StageP1} \cup
    {Projective(pt, z, StageModulus) :
        pt \in CurvePoints(StageModulus, 0, StageCurveB), z \in 1..MaxZ}

InitStages ==
    /\ driver = "stages" /\ N = StageModulus /\ curveA = 0
    /\ wid = [r \in EccRegs |-> IF r \in Ancillas THEN StageNAnc ELSE StageNIn]
    /\ \E acc \in StageAccumulators : reg = EccInitRegs(acc)
    /\ current_Q \in CurvePoints(StageModulus, 0, StageCurveB)
    /\ kval = 1 /\ m = 1 /\ bitI = 0 /\ pc = 1
    /\ entry = reg /\ exact = reg
    /\ wrapHi = FALSE /\ wrapLo = FALSE
    /\ EccIdleArith /\ SolveIdle /\ ShorIdle /\ OracleIdle /\ MultIdle

\* test_ecc_step5.py: one controlled addition, p = 13, 8-qubit registers
GateNQubits == 8

InitGate ==
    /\ driver = "loop" /\ N = StageModulus /\ curveA = 0
    /\ wid = [r \in EccRegs |-> GateNQubits]
    /\ \E acc \in StageAccumulators : reg = EccInitRegs(acc)
    /\ current_Q \in CurvePoints(StageModulus, 0, StageCurveB)
    /\ kval \in {0, 1} /\ m = 1 /\ bitI = 0 /\ pc = 1
    /\ entry = reg /\ exact = reg
    /\ wrapHi = FALSE /\ wrapLo = FALSE
    /\ EccIdleArith /\ SolveIdle /\ ShorIdle /\ OracleIdle /\ MultIdle

\* test_ecc_step8.py: N = 5, y^2 = x^3 + x + 1, 12-qubit registers, base point
\* (0, 1), accumulator 2P with Z = 1, a 3-qubit selector
ChainModulus == 5
ChainA == 1
ChainNQubits == 12
ChainKBits == 3
ChainStartIdx == 2
P_base == <<0, 1>>

InitChain ==
    /\ driver = "loop" /\ N = ChainModulus /\ curveA = ChainA
    /\ wid = [r \in EccRegs |-> ChainNQubits]
    /\ LET start_point == ClassicalScalarMult(ChainStartIdx, P_base, ChainModulus, ChainA)
       IN  reg = EccInitRegs(<<start_point[1], start_point[2], 1>>)
    /\ current_Q = P_base
    /\ kval \in 0..(2^ChainKBits - 1) /\ m = ChainKBits /\ bitI = 0 /\ pc = 1
    /\ entry = reg /\ exact = reg
    /\ wrapHi = FALSE /\ wrapLo = FALSE
    /\ EccIdleArith /\ SolveIdle /\ ShorIdle /\ OracleIdle /\ MultIdle

\* test_ecc_step4.py: the gate for P_base = (11, 5) on p = 13, a = 0, applied
\* to the accumulator (11, 5, 1) with 4-qubit registers and a 1-qubit selector
Step4NQubits == 4
Step4PBase == <<11, 5>>

InitStep4 ==
    /\ driver = "loop" /\ N = StageModulus /\ curveA = 0
    /\ wid = [r \in EccRegs |-> Step4NQubits]
    /\ reg = EccInitRegs(<<Step4PBase[1], Step4PBase[2], 1>>)
    /\ current_Q = Step4PBase
    /\ kval \in {0, 1} /\ m = 1 /\ bitI = 0 /\ pc = 1
    /\ entry = reg /\ exact = reg
    /\ wrapHi = FALSE /\ wrapLo = FALSE
    /\ EccIdleArith /\ SolveIdle /\ ShorIdle /\ OracleIdle /\ MultIdle

InitEcc == InitStages \/ InitGate \/ InitChain \/ InitStep4

NextEcc ==
    \/ StepSquare
    \/ StepGeneralMultiply
    \/ StepScalarMult
    \/ StepSub
    \/ StepSwap
    \/ NextBit

SpecEcc == InitEcc /\ [][NextEcc]_vars

----------------------------------------------------------------------------
(* Classical curve arithmetic of ShorPostProcessor                          *)

\* what a failed pow(den, -1, p) gives: postprocessing.py lets the ValueError
\* out, verify_qday.py catches it and returns (None, None)
NoInverse(v) == IF v = "verify_qday" THEN Inf ELSE ValueError

\* ShorPostProcessor._point_double
PointDouble(v, p1, p, a) ==
    IF p1 = Inf THEN Inf
    ELSE IF p1[2] = 0 THEN Inf
    ELSE LET num == (3 * p1[1] * p1[1] + a) % p
             den == (2 * p1[2]) % p
             inv == ModInv(den, p)
             lam == (num * inv) % p
             x3 == (lam * lam - 2 * p1[1]) % p
             y3 == (lam * (p1[1] - x3) - p1[2]) % p
         IN  IF inv = 0 THEN NoInverse(v) ELSE <<x3, y3>>

\* ShorPostProcessor._point_add
PointAdd(v, p1, p2, p, a) ==
    IF p1 = Inf THEN p2
    ELSE IF p2 = Inf THEN p1
    ELSE IF p1[1] = p2[1] /\ p1[2] # p2[2] THEN Inf
    ELSE IF p1[1] = p2[1] /\ p1[2] = p2[2] THEN PointDouble(v, p1, p, a)
    ELSE LET num == (p2[2] - p1[2]) % p
             den == (p2[1] - p1[1]) % p
             inv == ModInv(den, p)
             lam == (num * inv) % p
             x3 == (lam * lam - p1[1] - p2[1]) % p
             y3 == (lam * (p1[1] - x3) - p1[2]) % p
         IN  IF inv = 0 THEN NoInverse(v) ELSE <<x3, y3>>

RECURSIVE PointMultFrom(_, _, _, _, _, _, _)
PointMultFrom(v, k, i, add_point, res, p, a) ==
    IF res = ValueError \/ add_point = ValueError THEN ValueError
    ELSE IF i >= BitLength(k) THEN res
    ELSE PointMultFrom(v, k, i + 1, PointDouble(v, add_point, p, a),
                       IF Bit(k, i) = 1 THEN PointAdd(v, res, add_point, p, a) ELSE res,
                       p, a)

\* ShorPostProcessor._classical_point_mult
ClassicalPointMult(v, k, point, p, a) ==
    IF k = 0 THEN Inf
    ELSE IF k = 1 THEN point
    ELSE PointMultFrom(v, k, 0, point, Inf, p, a)

----------------------------------------------------------------------------
(* solve_k                                                                  *)

\* int(s, 2)
RECURSIVE BinToInt(_)
BinToInt(bits) ==
    IF Len(bits) = 0 THEN 0
    ELSE 2 * BinToInt(SubSeq(bits, 1, Len(bits) - 1)) + bits[Len(bits)]

\* the two register values <<val_b, val_a>> read off a bitstring "s_b s_a":
\* postprocessing.py takes the two blank-separated parts, verify_qday.py drops
\* the blank and cuts the string in the middle
ParseBits(v, key) ==
    IF v = "postprocessing"
    THEN <<BinToInt(key[1]), BinToInt(key[2])>>
    ELSE LET clean_bits == key[1] \o key[2]
             mid == Len(clean_bits) \div 2
         IN  <<BinToInt(SubSeq(clean_bits, 1, mid)),
               BinToInt(SubSeq(clean_bits, mid + 1, Len(clean_bits)))>>

\* sorted(items, key=itemgetter(1), reverse=True): stable, descending by the
\* second component
RECURSIVE SortedDesc(_)
SortedDesc(items) ==
    IF Len(items) = 0 THEN <<>>
    ELSE LET front == SortedDesc(SubSeq(items, 1, Len(items) - 1))
             e == items[Len(items)]
             n == Cardinality({j \in 1..Len(front) : front[j][2] >= e[2]})
         IN  SubSeq(front, 1, n) \o <<e>> \o SubSeq(front, n + 1, Len(front))

\* a plausible slip: the count of a repeated candidate replaces its weight
AddVoteOverwrite(cands, k, count) ==
    IF \E j \in 1..Len(cands) : cands[j][1] = k
    THEN [j \in 1..Len(cands) |->
            IF cands[j][1] = k THEN <<k, count>> ELSE cands[j]]
    ELSE Append(cands, <<k, count>>)

\* candidates[k] = candidates.get(k, 0) + count, on the dict in insertion order
AddVote(cands, k, count) ==
    IF \E j \in 1..Len(cands) : cands[j][1] = k
    THEN [j \in 1..Len(cands) |->
            IF cands[j][1] = k THEN <<k, cands[j][2] + count>> ELSE cands[j]]
    ELSE Append(cands, <<k, count>>)

\* a plausible slip: a sample without an inverse is not skipped and votes k = 0
CandidateNoSkip(val_b, val_a, order) == (val_b * ModInv(val_a, order)) % order

\* a plausible slip: only the multiples of r are skipped, and a value sharing
\* a factor with r votes with the inverse 0
CandidateSkipsMultiplesOnly(val_b, val_a, order) ==
    IF val_a % order = 0 THEN None
    ELSE (val_b * ModInv(val_a, order)) % order

\* the candidate a sample votes for: k = val_b * val_a^-1 mod r; None when the
\* sample is skipped (val_a a multiple of r, or not invertible mod r)
Candidate(val_b, val_a, order) ==
    IF val_a % order = 0 THEN None
    ELSE LET inv_a == ModInv(val_a, order)
         IN  IF inv_a = 0 THEN None ELSE (val_b * inv_a) % order

\* max(candidates.items(), key=itemgetter(1))[0]: the first entry of greatest weight
BestK(cands) ==
    LET top == CHOOSE j \in 1..Len(cands) :
                  /\ \A i \in 1..Len(cands) : cands[i][2] <= cands[j][2]
                  /\ \A i \in 1..(j - 1) : cands[i][2] < cands[j][2]
    IN  cands[top][1]

\* the value standing for an exception leaving solve_k
Raised == -2

\* the verification k * P == Q
Verifies(k) == ClassicalPointMult(variant, k, point_P, N, curveA) = point_Q

VerifyRaises(k) == ClassicalPointMult(variant, k, point_P, N, curveA) = ValueError

\* sorted_counts = sorted(counts.items(), ...)
SortCounts ==
    /\ spc = "start"
    /\ sorted_counts' = SortedDesc(counts)
    /\ spc' = "tally"
    /\ UNCHANGED <<variant, order_r, counts, point_P, point_Q, idx, candidates,
                   sorted_candidates, cidx, tried, result>>
    /\ UNCHANGED <<N, wid, reg, exact>> /\ UNCHANGED arithVars /\ UNCHANGED eccVars
    /\ UNCHANGED shorVars
    /\ UNCHANGED oracleVars
    /\ UNCHANGED multVars

\* one iteration of the loop over sorted_counts
TallySample ==
    /\ spc = "tally" /\ idx < Len(sorted_counts)
    /\ LET bitstring == sorted_counts[idx + 1][1]
           count == sorted_counts[idx + 1][2]
           vals == ParseBits(variant, bitstring)
           k_cand == Candidate(vals[1], vals[2], order_r)
       IN  candidates' = IF k_cand = None THEN candidates
                         ELSE AddVote(candidates, k_cand, count)
    /\ idx' = idx + 1
    /\ UNCHANGED <<variant, order_r, counts, point_P, point_Q, spc, sorted_counts,
                   sorted_candidates, cidx, tried, result>>
    /\ UNCHANGED <<N, wid, reg, exact>> /\ UNCHANGED arithVars /\ UNCHANGED eccVars
    /\ UNCHANGED shorVars
    /\ UNCHANGED oracleVars
    /\ UNCHANGED multVars

\* a plausible slip: the best candidate is returned without the check k*P == Q
SummaryUnverified ==
    /\ spc = "tally" /\ idx = Len(sorted_counts) /\ variant = "postprocessing"
    /\ IF Len(candidates) = 0
       THEN result' = None /\ tried' = tried
       ELSE /\ tried' = Append(tried, BestK(candidates))
            /\ result' = BestK(candidates)
    /\ spc' = "done"
    /\ UNCHANGED <<variant, order_r, counts, point_P, point_Q, sorted_counts, idx,
                   candidates, sorted_candidates, cidx>>
    /\ UNCHANGED <<N, wid, reg, exact>> /\ UNCHANGED arithVars /\ UNCHANGED eccVars
    /\ UNCHANGED shorVars
    /\ UNCHANGED oracleVars
    /\ UNCHANGED multVars

\* postprocessing.py, after the loop: no candidate -> None; otherwise the
\* candidate of greatest weight is verified and returned, or None
Summary ==
    /\ spc = "tally" /\ idx = Len(sorted_counts) /\ variant = "postprocessing"
    /\ IF Len(candidates) = 0
       THEN result' = None /\ tried' = tried
       ELSE LET best_k == BestK(candidates)
            IN  /\ tried' = Append(tried, best_k)
                /\ result' = IF VerifyRaises(best_k) THEN Raised
                             ELSE IF Verifies(best_k) THEN best_k ELSE None
    /\ spc' = "done"
    /\ UNCHANGED <<variant, order_r, counts, point_P, point_Q, sorted_counts, idx,
                   candidates, sorted_candidates, cidx>>
    /\ UNCHANGED <<N, wid, reg, exact>> /\ UNCHANGED arithVars /\ UNCHANGED eccVars
    /\ UNCHANGED shorVars
    /\ UNCHANGED oracleVars
    /\ UNCHANGED multVars

\* verify_qday.py, after the loop: sorted_candidates = sorted(k_votes.items(), ...)
SortCandidates ==
    /\ spc = "tally" /\ idx = Len(sorted_counts) /\ variant = "verify_qday"
    /\ sorted_candidates' = SortedDesc(candidates)
    /\ spc' = "verify"
    /\ UNCHANGED <<variant, order_r, counts, point_P, point_Q, sorted_counts, idx,
                   candidates, cidx, tried, result>>
    /\ UNCHANGED <<N, wid, reg, exact>> /\ UNCHANGED arithVars /\ UNCHANGED eccVars
    /\ UNCHANGED shorVars
    /\ UNCHANGED oracleVars
    /\ UNCHANGED multVars

\* a plausible slip: the loop gives up when the first candidate fails
CheckCandidateStops ==
    /\ spc = "verify" /\ cidx < Len(sorted_candidates)
    /\ LET cand_k == sorted_candidates[cidx + 1][1]
       IN  /\ tried' = Append(tried, cand_k)
           /\ result' = IF Verifies(cand_k) THEN cand_k ELSE None
    /\ spc' = "done"
    /\ cidx' = cidx + 1
    /\ UNCHANGED <<variant, order_r, counts, point_P, point_Q, sorted_counts, idx,
                   candidates, sorted_candidates>>
    /\ UNCHANGED <<N, wid, reg, exact>> /\ UNCHANGED arithVars /\ UNCHANGED eccVars
    /\ UNCHANGED shorVars
    /\ UNCHANGED oracleVars
    /\ UNCHANGED multVars

\* verify_qday.py: one iteration of the loop over sorted_candidates
CheckCandidate ==
    /\ spc = "verify" /\ cidx < Len(sorted_candidates)
    /\ LET cand_k == sorted_candidates[cidx + 1][1]
       IN  /\ tried' = Append(tried, cand_k)
           /\ IF Verifies(cand_k)
              THEN result' = cand_k /\ spc' = "done"
              ELSE result' = result /\ spc' = spc
    /\ cidx' = cidx + 1
    /\ UNCHANGED <<variant, order_r, counts, point_P, point_Q, sorted_counts, idx,
                   candidates, sorted_candidates>>
    /\ UNCHANGED <<N, wid, reg, exact>> /\ UNCHANGED arithVars /\ UNCHANGED eccVars
    /\ UNCHANGED shorVars
    /\ UNCHANGED oracleVars
    /\ UNCHANGED multVars

\* verify_qday.py: the list is exhausted, return None
ReturnNone ==
    /\ spc = "verify" /\ cidx = Len(sorted_candidates)
    /\ result' = None
    /\ spc' = "done"
    /\ UNCHANGED <<variant, order_r, counts, point_P, point_Q, sorted_counts, idx,
                   candidates, sorted_candidates, cidx, tried>>
    /\ UNCHANGED <<N, wid, reg, exact>> /\ UNCHANGED arithVars /\ UNCHANGED eccVars
    /\ UNCHANGED shorVars
    /\ UNCHANGED oracleVars
    /\ UNCHANGED multVars

----------------------------------------------------------------------------
(* Inputs of the solver *)

\* most entries of a histogram, and the largest count of an entry
MaxSamples == 2
MaxCount == 2

\* the example of postprocessing.py: y^2 = x^3 + 2x + 4 mod 5, order 7,
\* P = (2, 1), two-bit register values ('10 01')
SolveModulus == 5
SolveA == 2
SolveOrder == 7
SolveBits == 2
SolveP == <<2, 1>>

\* the target points tried: 1P and 3P
SolveTargets ==
    {ClassicalPointMult("postprocessing", d, SolveP, SolveModulus, SolveA) : d \in {1, 3}}

\* the register values sampled: 0 (as the second value, a skipped sample), 1 and 3
SampleValues == {0, 1, 3}

\* the bitstrings sampled, as <<s_b, s_a>>
Keys ==
    {key \in [1..SolveBits -> {0, 1}] \X [1..SolveBits -> {0, 1}] :
        BinToInt(key[1]) \in SampleValues /\ BinToInt(key[2]) \in SampleValues}

\* histograms: at most MaxSamples entries with distinct bitstrings
Histograms ==
    UNION {{h \in [1..n -> Keys \X (1..MaxCount)] :
               \A i, j \in 1..n : i # j => h[i][1] # h[j][1]} : n \in 0..MaxSamples}

InitSolve ==
    /\ variant \in {"postprocessing", "verify_qday"}
    /\ N = SolveModulus /\ curveA = SolveA /\ order_r = SolveOrder
    /\ point_P = SolveP
    /\ point_Q \in SolveTargets
    /\ counts \in Histograms
    /\ spc = "start" /\ sorted_counts = <<>> /\ idx = 0 /\ candidates = <<>>
    /\ sorted_candidates = <<>> /\ cidx = 0 /\ tried = <<>> /\ result = None
    /\ wid = <<>> /\ reg = <<>> /\ exact = <<>>
    /\ EccIdleArith
    /\ driver = "none" /\ kval = 0 /\ m = 0 /\ bitI = 0
    /\ current_Q = <<0, 0>> /\ pc = 0 /\ entry = <<>>
    /\ wrapHi = FALSE /\ wrapLo = FALSE
    /\ ShorIdle /\ OracleIdle /\ MultIdle

\* verify_qday(): p = 13, y^2 = x^3 + 7, order 7, G = (11, 5), Q = 6G = (11, 8),
\* two selector registers of 5 qubits
QdayModulus == 13
QdayOrder == 7
QdayCtrlBits == 5
QdayTrueD == 6
QdayG == <<11, 5>>
QdayQ == <<11, 8>>

\* the register values sampled: 1, 6, and 7 (a multiple of the order)
QdayValues == {1, 6, 7}

QdayKeys ==
    {key \in [1..QdayCtrlBits -> {0, 1}] \X [1..QdayCtrlBits -> {0, 1}] :
        BinToInt(key[1]) \in QdayValues /\ BinToInt(key[2]) \in QdayValues}

QdayHistograms ==
    UNION {{h \in [1..n -> QdayKeys \X (1..MaxCount)] :
               \A i, j \in 1..n : i # j => h[i][1] # h[j][1]} : n \in 0..MaxSamples}

InitQday ==
    /\ variant = "verify_qday"
    /\ N = QdayModulus /\ curveA = 0 /\ order_r = QdayOrder
    /\ point_P = QdayG /\ point_Q = QdayQ
    /\ counts \in QdayHistograms
    /\ spc = "start" /\ sorted_counts = <<>> /\ idx = 0 /\ candidates = <<>>
    /\ sorted_candidates = <<>> /\ cidx = 0 /\ tried = <<>> /\ result = None
    /\ wid = <<>> /\ reg = <<>> /\ exact = <<>>
    /\ EccIdleArith
    /\ driver = "none" /\ kval = 0 /\ m = 0 /\ bitI = 0
    /\ current_Q = <<0, 0>> /\ pc = 0 /\ entry = <<>>
    /\ wrapHi = FALSE /\ wrapLo = FALSE
    /\ ShorIdle /\ OracleIdle /\ MultIdle

\* a curve of composite order: y^2 = x^3 + x + 1 mod 5 of test_ecc_step8.py,
\* whose group has 9 elements, with the base point (0, 1)
ChainB == 1
CompositeOrder == Cardinality(CurvePoints(ChainModulus, ChainA, ChainB)) + 1

\* the target points tried: 1P and 3P
CompositeTargets ==
    {ClassicalPointMult("postprocessing", d, P_base, ChainModulus, ChainA) : d \in {1, 3}}

\* the register values sampled: 1, and 3, which is not 0 mod 9 and shares the
\* factor 3 with the order
CompositeValues == {1, 3}

CompositeKeys ==
    {key \in [1..SolveBits -> {0, 1}] \X [1..SolveBits -> {0, 1}] :
        BinToInt(key[1]) \in CompositeValues /\ BinToInt(key[2]) \in CompositeValues}

CompositeHistograms ==
    UNION {{h \in [1..n -> CompositeKeys \X (1..MaxCount)] :
               \A i, j \in 1..n : i # j => h[i][1] # h[j][1]} : n \in 0..MaxSamples}

InitComposite ==
    /\ variant \in {"postprocessing", "verify_qday"}
    /\ N = ChainModulus /\ curveA = ChainA /\ order_r = CompositeOrder
    /\ point_P = P_base
    /\ point_Q \in CompositeTargets
    /\ counts \in CompositeHistograms
    /\ spc = "start" /\ sorted_counts = <<>> /\ idx = 0 /\ candidates = <<>>
    /\ sorted_candidates = <<>> /\ cidx = 0 /\ tried = <<>> /\ result = None
    /\ wid = <<>> /\ reg = <<>> /\ exact = <<>>
    /\ EccIdleArith
    /\ driver = "none" /\ kval = 0 /\ m = 0 /\ bitI = 0
    /\ current_Q = <<0, 0>> /\ pc = 0 /\ entry = <<>>
    /\ wrapHi = FALSE /\ wrapLo = FALSE
    /\ ShorIdle /\ OracleIdle /\ MultIdle

NextSolve ==
    \/ SortCounts
    \/ TallySample
    \/ Summary
    \/ SortCandidates
    \/ CheckCandidate
    \/ ReturnNone

SpecSolve == (InitSolve \/ InitQday \/ InitComposite) /\ [][NextSolve]_vars

----------------------------------------------------------------------------
(* The oracle assembler: ShorECDLP.construct_circuit                        *)

\* an operation of the assembled circuit: op on register reg (bit = -1: on
\* every qubit of it); a controlled addition carries its control qubit
\* <<reg, bit>>, its constant point, its target registers and the size of
\* the ancilla pool it is appended on
Op(op, r, bit, point, targets, anc) ==
    [op |-> op, reg |-> r, bit |-> bit, point |-> point, targets |-> targets,
     anc |-> anc]

AllQubits == -1

\* qc.h(reg)
Hadamard(r) == Op("h", r, AllQubits, Inf, <<>>, 0)

\* qc.x(reg_Z[0])
SetZ1 == Op("x", "Z", 0, Inf, <<>>, 0)

\* circuit.append(ctrl_gate, [k_regs[i]] + X + Y + Z + ancilla_regs)
ControlledAdd(k_regs, i, const_point, n) ==
    Op("cadd", k_regs, i, const_point, <<"X", "Y", "Z">>, 8 * n)

\* qc.append(QFT(num_ctrl_qubits, inverse=True), reg)
InverseQft(r) == Op("iqft", r, AllQubits, Inf, <<>>, 0)

\* qc.measure(reg, creg)
Measure(r) == Op("measure", r, AllQubits, Inf, <<>>, 0)

\* arith.n, the width of X, Y, Z
ArithN == wid["X1"]

ShorFrame ==
    /\ UNCHANGED <<shor_file, num_ctrl_qubits, base_P, base_Q, initial_point_Z1>>
    /\ UNCHANGED <<N, wid, reg, exact>>
    /\ UNCHANGED arithVars /\ UNCHANGED eccVars /\ UNCHANGED solveVars
    /\ UNCHANGED oracleVars
    /\ UNCHANGED multVars

\* qc.h(reg_a); qc.h(reg_b)
AppendHadamards ==
    /\ phase = "hadamard"
    /\ qc' = qc \o <<Hadamard("reg_a"), Hadamard("reg_b")>>
    /\ phase' = "init"
    /\ UNCHANGED <<loop_i, loop_Q>>
    /\ ShorFrame

\* shor_ecdlp.py: if initial_point_Z1 == 1: qc.x(reg_Z[0]);
\* verify_qday.py: qc.x(reg_Z[0]).  Then the first loop is entered with
\* current_Q = point_P
InitAccumulator ==
    /\ phase = "init"
    /\ qc' = IF shor_file = "verify_qday" \/ initial_point_Z1 = 1
             THEN Append(qc, SetZ1) ELSE qc
    /\ phase' = "loop_a"
    /\ loop_i' = 0
    /\ loop_Q' = base_P
    /\ ShorFrame

\* a plausible slip: the second loop is controlled by reg_a again
LoopIterationSameRegister ==
    /\ phase \in {"loop_a", "loop_b"} /\ loop_i < num_ctrl_qubits
    /\ qc' = Append(qc, ControlledAdd("reg_a", loop_i, loop_Q, ArithN))
    /\ IF loop_i + 1 < num_ctrl_qubits
       THEN /\ loop_i' = loop_i + 1
            /\ loop_Q' = ClassicalPointDoubling(loop_Q, N, curveA)
            /\ phase' = phase
       ELSE /\ loop_i' = 0
            /\ loop_Q' = base_Q
            /\ phase' = IF phase = "loop_a" THEN "loop_b" ELSE "iqft"
    /\ ShorFrame

\* one iteration of build_scalar_mult_circuit, for reg_a against point_P and
\* then for reg_b against point_Q; after the last iteration of the first call
\* the second call starts with current_Q = point_Q
LoopIteration ==
    /\ phase \in {"loop_a", "loop_b"} /\ loop_i < num_ctrl_qubits
    /\ qc' = Append(qc, ControlledAdd(IF phase = "loop_a" THEN "reg_a" ELSE "reg_b",
                                      loop_i, loop_Q, ArithN))
    /\ IF loop_i + 1 < num_ctrl_qubits
       THEN /\ loop_i' = loop_i + 1
            /\ loop_Q' = ClassicalPointDoubling(loop_Q, N, curveA)
            /\ phase' = phase
       ELSE /\ loop_i' = 0
            /\ loop_Q' = base_Q
            /\ phase' = IF phase = "loop_a" THEN "loop_b" ELSE "iqft"
    /\ ShorFrame

\* the inverse QFT on reg_a, then on reg_b
AppendInverseQft ==
    /\ phase = "iqft"
    /\ qc' = qc \o <<InverseQft("reg_a"), InverseQft("reg_b")>>
    /\ phase' = "measure"
    /\ UNCHANGED <<loop_i, loop_Q>>
    /\ ShorFrame

\* qc.measure(reg_a, cr_a); qc.measure(reg_b, cr_b); return qc
AppendMeasure ==
    /\ phase = "measure"
    /\ qc' = qc \o <<Measure("reg_a"), Measure("reg_b")>>
    /\ phase' = "returned"
    /\ UNCHANGED <<loop_i, loop_Q>>
    /\ ShorFrame

\* most qubits of a selector register
MaxCtrl == 3

\* verify_qday(): "n_qubits": 4
ShorNQubits == 4

\* the target points tried: Q = 6G and another point of the curve
ShorTargets == {QdayQ, <<7, 5>>}

InitShor ==
    /\ shor_file \in {"shor_ecdlp", "verify_qday"}
    /\ num_ctrl_qubits \in 1..MaxCtrl
    /\ base_P = QdayG /\ base_Q \in ShorTargets
    /\ initial_point_Z1 \in {0, 1}
    /\ (shor_file = "verify_qday" => initial_point_Z1 = 1)
    /\ qc = <<>> /\ phase = "hadamard" /\ loop_i = 0 /\ loop_Q = <<0, 0>>
    /\ N = QdayModulus /\ curveA = 0
    /\ wid = [rg \in EccRegs |-> ShorNQubits]
    /\ reg = <<>> /\ exact = <<>>
    /\ EccIdleArith
    /\ driver = "none" /\ kval = 0 /\ m = 0 /\ bitI = 0
    /\ current_Q = <<0, 0>> /\ pc = 0 /\ entry = <<>>
    /\ wrapHi = FALSE /\ wrapLo = FALSE
    /\ SolveIdle /\ OracleIdle /\ MultIdle

NextShor ==
    \/ AppendHadamards
    \/ InitAccumulator
    \/ LoopIteration
    \/ AppendInverseQft
    \/ AppendMeasure

SpecShor == InitShor /\ [][NextShor]_vars

----------------------------------------------------------------------------
(* The lookup-table oracle: QDayOptimizedSolver.create_oracle_circuit       *)

\* QDayOptimizedSolver._point_double
OraclePointDouble(p1, p, a) ==
    IF p1 = Inf THEN Inf
    ELSE IF p1[2] = 0 THEN Inf
    ELSE LET num == (3 * p1[1] * p1[1] + a) % p
             den == (2 * p1[2]) % p
             lam == (num * ModInv(den, p)) % p
             x3 == (lam * lam - 2 * p1[1]) % p
             y3 == (lam * (p1[1] - x3) - p1[2]) % p
         IN  IF den = 0 THEN Inf
             ELSE IF ModInv(den, p) = 0 THEN ValueError
             ELSE <<x3, y3>>

\* a plausible slip: equal points are not doubled but treated as opposite
OraclePointAddNoDouble(p1, p2, p, a) ==
    IF p1 = Inf THEN p2
    ELSE IF p2 = Inf THEN p1
    ELSE IF p1[1] = p2[1] THEN Inf
    ELSE LET num == (p2[2] - p1[2]) % p
             den == (p2[1] - p1[1]) % p
             lam == (num * ModInv(den, p)) % p
             x3 == (lam * lam - p1[1] - p2[1]) % p
             y3 == (lam * (p1[1] - x3) - p1[2]) % p
         IN  <<x3, y3>>

\* QDayOptimizedSolver._point_add
OraclePointAdd(p1, p2, p, a) ==
    IF p1 = Inf THEN p2
    ELSE IF p2 = Inf THEN p1
    ELSE IF p1[1] = p2[1] /\ p1[2] # p2[2] THEN Inf
    ELSE IF p1[1] = p2[1] /\ p1[2] = p2[2] THEN OraclePointDouble(p1, p, a)
    ELSE LET num == (p2[2] - p1[2]) % p
             den == (p2[1] - p1[1]) % p
             lam == (num * ModInv(den, p)) % p
             x3 == (lam * lam - p1[1] - p2[1]) % p
             y3 == (lam * (p1[1] - x3) - p1[2]) % p
         IN  IF den = 0 THEN Inf
             ELSE IF ModInv(den, p) = 0 THEN ValueError
             ELSE <<x3, y3>>

RECURSIVE OracleScalarMultFrom(_, _, _, _, _, _)
OracleScalarMultFrom(k, i, temp, res, p, a) ==
    IF res = ValueError \/ temp = ValueError THEN ValueError
    ELSE IF i >= BitLength(k) THEN res
    ELSE OracleScalarMultFrom(k, i + 1, OraclePointDouble(temp, p, a),
                              IF Bit(k, i) = 1 THEN OraclePointAdd(res, temp, p, a)
                              ELSE res,
                              p, a)

\* QDayOptimizedSolver._scalar_mult
OracleScalarMult(k, point, p, a) == OracleScalarMultFrom(k, 0, point, Inf, p, a)

\* the bitwise exclusive or of two n-bit values
RECURSIVE BitXor(_, _, _)
BitXor(x, y, n) ==
    IF n = 0 THEN 0
    ELSE ((x + y) % 2) + 2 * BitXor(x \div 2, y \div 2, n - 1)

\* for i in range(n_ctrl): if not ((val >> i) & 1): qc.x(q[i])
FlipZeroBits(q, val, n) == BitXor(q, (2^n - 1) - val, n)

\* for i in range(n_target): if (r >> i) & 1: qc.mcx(ctrl_qubits, q[i]);
\* the controls are all the qubits of qa and qb
Mcx(q, r, n, vals, nc) ==
    IF vals["qa"] = 2^nc - 1 /\ vals["qb"] = 2^nc - 1 THEN BitXor(q, r, n) ELSE q

OracleRegs == {"qa", "qb", "qx", "qy"}

\* Res = _point_add(_scalar_mult(a_val, point_P), _scalar_mult(b_val, point_Q))
Res ==
    OraclePointAdd(OracleScalarMult(a_val, table_P, N, curveA),
                   OracleScalarMult(b_val, table_Q, N, curveA), N, curveA)

OracleFrame ==
    /\ UNCHANGED <<N, wid, exact, table_P, table_Q, n_ctrl, start_ab>>
    /\ UNCHANGED arithVars /\ UNCHANGED eccVars /\ UNCHANGED solveVars
    /\ UNCHANGED shorVars /\ UNCHANGED multVars

\* the next pair of the two nested loops, or the return of the circuit
NextEntry ==
    IF b_val + 1 < 2^n_ctrl
    THEN a_val' = a_val /\ b_val' = b_val + 1 /\ ostep' = "entry"
    ELSE IF a_val + 1 < 2^n_ctrl
    THEN a_val' = a_val + 1 /\ b_val' = 0 /\ ostep' = "entry"
    ELSE a_val' = a_val /\ b_val' = b_val /\ ostep' = "returned"

\* if Res == (None, None): continue
SkipInfinity ==
    /\ ostep = "entry" /\ Res = Inf
    /\ NextEntry
    /\ UNCHANGED reg
    /\ OracleFrame

\* the X gates on the zero bits of a_val and of b_val
FlipControls ==
    /\ ostep = "entry" /\ Res # Inf
    /\ reg' = [reg EXCEPT !["qa"] = FlipZeroBits(@, a_val, n_ctrl),
                          !["qb"] = FlipZeroBits(@, b_val, n_ctrl)]
    /\ ostep' = "write_x"
    /\ UNCHANGED <<a_val, b_val>>
    /\ OracleFrame

\* the multi-controlled X gates writing rx
WriteX ==
    /\ ostep = "write_x"
    /\ reg' = [reg EXCEPT !["qx"] = Mcx(@, Res[1], wid["qx"], reg, n_ctrl)]
    /\ ostep' = "write_y"
    /\ UNCHANGED <<a_val, b_val>>
    /\ OracleFrame

\* the multi-controlled X gates writing ry
WriteY ==
    /\ ostep = "write_y"
    /\ reg' = [reg EXCEPT !["qy"] = Mcx(@, Res[2], wid["qy"], reg, n_ctrl)]
    /\ ostep' = "restore"
    /\ UNCHANGED <<a_val, b_val>>
    /\ OracleFrame

\* the X gates are undone, on qb and then on qa
RestoreControls ==
    /\ ostep = "restore"
    /\ reg' = [reg EXCEPT !["qb"] = FlipZeroBits(@, b_val, n_ctrl),
                          !["qa"] = FlipZeroBits(@, a_val, n_ctrl)]
    /\ NextEntry
    /\ OracleFrame

\* most qubits of a selector register of the oracle
MaxTableCtrl == 2

\* p.bit_length() for p = 13
OracleNTarget == 4

\* the target points tried: Q = 6P and another point of the curve
OracleTargets == {QdayQ, <<7, 5>>}

InitOracle ==
    /\ N = QdayModulus /\ curveA = 0
    /\ table_P = QdayG /\ table_Q \in OracleTargets
    /\ n_ctrl \in 1..MaxTableCtrl
    /\ wid = [rg \in OracleRegs |-> IF rg \in {"qa", "qb"} THEN n_ctrl ELSE OracleNTarget]
    /\ start_ab \in (0..(2^MaxTableCtrl - 1)) \X (0..(2^MaxTableCtrl - 1))
    /\ start_ab[1] < 2^n_ctrl /\ start_ab[2] < 2^n_ctrl
    /\ reg = [rg \in OracleRegs |-> IF rg = "qa" THEN start_ab[1]
                                   ELSE IF rg = "qb" THEN start_ab[2] ELSE 0]
    /\ exact = reg
    /\ a_val = 0 /\ b_val = 0 /\ ostep = "entry"
    /\ EccIdleArith
    /\ driver = "none" /\ kval = 0 /\ m = 0 /\ bitI = 0
    /\ current_Q = <<0, 0>> /\ pc = 0 /\ entry = <<>>
    /\ wrapHi = FALSE /\ wrapLo = FALSE
    /\ SolveIdle /\ ShorIdle /\ MultIdle

NextOracle ==
    \/ SkipInfinity
    \/ FlipControls
    \/ WriteX
    \/ WriteY
    \/ RestoreControls

SpecOracle == InitOracle /\ [][NextOracle]_vars

----------------------------------------------------------------------------
(* The two classical double-and-add routines on the same scalar and point   *)

MultFrame ==
    /\ UNCHANGED <<N, wid, reg, exact, mult_k, mult_point>>
    /\ UNCHANGED arithVars /\ UNCHANGED eccVars /\ UNCHANGED solveVars
    /\ UNCHANGED shorVars /\ UNCHANGED oracleVars

\* ScalarMultiplication._classical_scalar_mult(k, point, p) is called
CallClassicalScalarMult ==
    /\ mult_point # <<0, 0>> /\ general_result = NotCalled
    /\ general_result' = ClassicalScalarMult(mult_k, mult_point, N, curveA)
    /\ UNCHANGED post_result
    /\ MultFrame

\* ShorPostProcessor._classical_point_mult(k, point) is called
CallClassicalPointMult ==
    /\ mult_point # <<0, 0>> /\ post_result = NotCalled
    /\ post_result' = ClassicalPointMult("postprocessing", mult_k, mult_point, N, curveA)
    /\ UNCHANGED general_result
    /\ MultFrame

\* the largest scalar tried
MaxK == 8

\* the curves tried, as <<p, a, b>>: y^2 = x^3 + 7 mod 13 (order 7) and
\* y^2 = x^3 + x + 1 mod 5 (order 9)
MultCurves == {<<QdayModulus, 0, StageCurveB>>, <<ChainModulus, ChainA, ChainB>>}

InitMult ==
    /\ \E c \in MultCurves :
          /\ N = c[1] /\ curveA = c[2]
          /\ mult_point \in CurvePoints(c[1], c[2], c[3])
    /\ mult_k \in 0..MaxK
    /\ general_result = NotCalled /\ post_result = NotCalled
    /\ wid = <<>> /\ reg = <<>> /\ exact = <<>>
    /\ EccIdleArith
    /\ driver = "none" /\ kval = 0 /\ m = 0 /\ bitI = 0
    /\ current_Q = <<0, 0>> /\ pc = 0 /\ entry = <<>>
    /\ wrapHi = FALSE /\ wrapLo = FALSE
    /\ SolveIdle /\ ShorIdle /\ OracleIdle

NextMult ==
    \/ CallClassicalScalarMult
    \/ CallClassicalPointMult

SpecMult == InitMult /\ [][NextMult]_vars

----------------------------------------------------------------------------
(* Properties of the solver *)

Returned == spc = "done"

\* the weight a candidate holds in a dict kept as a sequence of pairs, 0 if absent
WeightOf(cands, k) ==
    IF \E j \in 1..Len(cands) : cands[j][1] = k
    THEN cands[CHOOSE j \in 1..Len(cands) : cands[j][1] = k][2]
    ELSE 0

\* C1: whenever solve_k has returned, in either variant, the value is None or
\* a k in 0..r-1 whose classical multiple k*P, computed by the independent
\* double-and-add of the composer, equals Q; no exception leaves the call.
C1_OnlyVerifiedAnswers ==
    Returned =>
        \/ result = None
        \/ /\ result \in 0..(order_r - 1)
           /\ ClassicalScalarMult(result, point_P, N, curveA) = point_Q

\* a verified answer returned from a histogram that produced two candidates
C1_Witness ==
    /\ Returned /\ result # None /\ Len(candidates) = 2
    /\ ClassicalScalarMult(result, point_P, N, curveA) = point_Q

\* the candidate of greatest weight fails k*P = Q while a lighter one passes
LeaderFails ==
    /\ Len(candidates) = 2
    /\ candidates[1][2] # candidates[2][2]
    /\ ~Verifies(BestK(candidates))
    /\ \E j \in 1..2 : Verifies(candidates[j][1])

\* C4: when the candidate of greatest weight fails verification and a lighter
\* candidate k has k*P = Q, solve_k returns that lighter candidate.
C4_ContinuesPastLeader ==
    (Returned /\ LeaderFails) =>
        /\ result # None
        /\ Verifies(result)

\* the sum of the counts of the first n sorted samples whose candidate is k,
\* the candidate of a sample computed by rel(first value, second value)
RECURSIVE VoteSum(_, _, _)
VoteSum(rel(_, _), n, k) ==
    IF n = 0 THEN 0
    ELSE LET vals == ParseBits(variant, sorted_counts[n][1])
         IN  VoteSum(rel, n - 1, k)
             + (IF rel(vals[1], vals[2]) = k THEN sorted_counts[n][2] ELSE 0)

\* the relation the code uses: k = val_b * val_a^-1 mod r when val_a is invertible
CodeRelation(val_b, val_a) == Candidate(val_b, val_a, order_r)

\* the relation as stated: d = -a * b^-1 mod r when b is invertible
StatedRelation(val_b, val_a) ==
    LET inv_b == ModInv(val_b, order_r)
    IN  IF val_b % order_r = 0 \/ inv_b = 0 THEN None
        ELSE ((0 - val_a) * inv_b) % order_r

\* C5 as stated: every sample (a, b, c) with b invertible mod r adds c to the
\* candidate -a * b^-1 mod r, so a candidate's weight is the sum of the counts
\* of the samples mapped to it by that relation.
C5_VotesByStatedRelation ==
    (spc \in {"tally", "verify", "done"}) =>
        \A k \in 0..(order_r - 1) :
            WeightOf(candidates, k) = VoteSum(StatedRelation, idx, k)

\* C5 as the code has it: every sample with register values (val_b, val_a) and
\* count c whose val_a is invertible mod r adds c to the candidate
\* val_b * val_a^-1 mod r, the other samples add nothing, and a candidate's
\* weight is the sum of the counts of the samples mapped to it.
C5_VotesByCodeRelation ==
    (spc \in {"tally", "verify", "done"}) =>
        /\ \A k \in 0..(order_r - 1) :
              WeightOf(candidates, k) = VoteSum(CodeRelation, idx, k)
        /\ \A j \in 1..Len(candidates) : candidates[j][1] \in 0..(order_r - 1)

\* two samples were tallied into one candidate, which holds both counts
C5_Witness ==
    /\ spc = "tally" /\ idx = 2 /\ Len(candidates) = 1
    /\ candidates[1][2] = sorted_counts[1][2] + sorted_counts[2][2]
    /\ sorted_counts[1][2] # sorted_counts[2][2]

\* no sample of the histogram has a second register value invertible mod r
NoInvertibleSample ==
    \A i \in 1..Len(counts) :
        ModInv(ParseBits(variant, counts[i][1])[2], order_r) = 0

\* C12: when the histogram is empty or none of its samples has a value
\* invertible mod r, the candidate set stays empty and solve_k returns None
\* without attempting a verification and without an exception.
C12_NoCandidateReturnsNone ==
    (Returned /\ NoInvertibleSample) =>
        /\ result = None
        /\ candidates = <<>>
        /\ tried = <<>>

\* a histogram of two samples, both skipped, has returned None
C12_Witness ==
    /\ Returned /\ NoInvertibleSample /\ Len(counts) = 2
    /\ idx = 2 /\ result = None /\ candidates = <<>>

\* solve_k of verify_qday.py runs on the configuration of verify_qday()
QdayRun == variant = "verify_qday" /\ N = QdayModulus /\ point_Q = QdayQ

\* sample i satisfies the relation of the oracle for d = 6:
\* val_b = 6 * val_a (mod r)
Consistent(i) ==
    LET vals == ParseBits(variant, counts[i][1])
    IN  (vals[1] - QdayTrueD * vals[2]) % order_r = 0

\* sample i has a second register value that is not a multiple of r
Usable(i) == ParseBits(variant, counts[i][1])[2] % order_r # 0

\* C13 (as claimed): every histogram whose samples are consistent with the
\* relation for d = 6 makes solve_k return 6, and every histogram without a
\* consistent sample makes it return None; no other value is returned.
C13_ConsistentGives6 ==
    (Returned /\ QdayRun) =>
        /\ (\A i \in 1..Len(counts) : Consistent(i)) => result = QdayTrueD
        /\ (\A i \in 1..Len(counts) : ~Consistent(i)) => result = None
        /\ result \in {QdayTrueD, None}

\* C13 (amended): solve_k returns 6 exactly when some sample with a second
\* register value that is not a multiple of 7 satisfies val_b = 6 * val_a
\* (mod 7); for every other histogram it returns None.
C13_Returns6IffUsableConsistent ==
    (Returned /\ QdayRun) =>
        result = IF \E i \in 1..Len(counts) : Usable(i) /\ Consistent(i)
                 THEN QdayTrueD ELSE None

\* 6 was returned although a candidate of greater weight was tried first
C13_Witness ==
    /\ Returned /\ QdayRun /\ result = QdayTrueD
    /\ Len(tried) = 2 /\ tried[2] = QdayTrueD
    /\ ClassicalScalarMult(QdayTrueD, QdayG, N, curveA) = QdayQ

\* the second register value of a sample shares a factor with the order
NotCoprime(val_a) == \A c \in 0..(order_r - 1) : (val_a * c) % order_r # 1

\* the candidate of a sample whose val_a is coprime with r: the one k in
\* 0..r-1 with k * val_a = val_b (mod r); None for the other samples
CoprimeRelation(val_b, val_a) ==
    IF NotCoprime(val_a) THEN None
    ELSE CHOOSE k \in 0..(order_r - 1) : (k * val_a - val_b) % order_r = 0

\* the sum of the counts of the first n sorted samples whose val_a is coprime
\* with the order
RECURSIVE CoprimeCount(_)
CoprimeCount(n) ==
    IF n = 0 THEN 0
    ELSE CoprimeCount(n - 1)
         + (IF NotCoprime(ParseBits(variant, sorted_counts[n][1])[2]) THEN 0
            ELSE sorted_counts[n][2])

RECURSIVE TotalWeight(_)
TotalWeight(cands) ==
    IF Len(cands) = 0 THEN 0
    ELSE cands[Len(cands)][2] + TotalWeight(SubSeq(cands, 1, Len(cands) - 1))

\* C26: a sample whose val_a is not coprime with the order r (also when it is
\* not 0 mod r, for a composite r) is skipped: it adds no weight to any
\* candidate, the loop goes on to the remaining samples, which vote as usual,
\* and no exception leaves solve_k
C26_NonCoprimeSkipped ==
    (spc \in {"tally", "verify", "done"}) =>
        /\ \A k \in 0..(order_r - 1) :
              WeightOf(candidates, k) = VoteSum(CoprimeRelation, idx, k)
        /\ TotalWeight(candidates) = CoprimeCount(idx)
        /\ (spc \in {"verify", "done"} => idx = Len(sorted_counts))
        /\ result # Raised

\* order 9: the first sample has val_a = 3 and is skipped, the second one,
\* with val_a = 1, has voted, and solve_k has returned
C26_Witness ==
    /\ Returned /\ order_r = CompositeOrder /\ idx = 2
    /\ ParseBits(variant, sorted_counts[1][1])[2] = 3
    /\ ParseBits(variant, sorted_counts[2][1])[2] = 1
    /\ 3 % order_r # 0
    /\ Len(candidates) = 1 /\ candidates[1][2] = sorted_counts[2][2]
    /\ sorted_counts[1][2] > sorted_counts[2][2]

\* the candidates after the first n samples of a sorted histogram
RECURSIVE TallyAll(_, _, _)
TallyAll(v, sorted, n) ==
    IF n = 0 THEN <<>>
    ELSE LET vals == ParseBits(v, sorted[n][1])
             k_cand == Candidate(vals[1], vals[2], order_r)
             before == TallyAll(v, sorted, n - 1)
         IN  IF k_cand = None THEN before ELSE AddVote(before, k_cand, sorted[n][2])

\* the first candidate of the list that verifies, None if there is none
RECURSIVE FirstVerified(_, _)
FirstVerified(cands, j) ==
    IF j > Len(cands) THEN None
    ELSE IF Verifies(cands[j][1]) THEN cands[j][1]
    ELSE FirstVerified(cands, j + 1)

\* what solve_k returns for the histogram hist given in dict iteration order
SolveResult(v, hist) ==
    LET sorted == SortedDesc(hist)
        cands == TallyAll(v, sorted, Len(sorted))
    IN  IF v = "postprocessing"
        THEN IF Len(cands) = 0 THEN None
             ELSE IF VerifyRaises(BestK(cands)) THEN Raised
             ELSE IF Verifies(BestK(cands)) THEN BestK(cands) ELSE None
        ELSE FirstVerified(SortedDesc(cands), 1)

\* the same bitstring-to-count pairs in every iteration order
Reorderings(hist) ==
    {h \in [1..Len(hist) -> {hist[i] : i \in 1..Len(hist)}] :
        \A i \in 1..Len(hist) : \E j \in 1..Len(hist) : h[j] = hist[i]}

\* C30 (as claimed): the value solve_k returns depends on the histogram as a
\* mapping only: the same bitstring-to-count pairs presented in another
\* iteration order give the same value, also when candidates tie in weight
C30_OrderIndependent ==
    Returned =>
        /\ result = SolveResult(variant, counts)
        /\ \A h \in Reorderings(counts) : SolveResult(variant, h) = result

\* C29 (as claimed): for every curve point and every scalar k >= 0, also at
\* and beyond the order of the point, _classical_scalar_mult of general/ecc.py
\* returns the same point as _classical_point_mult of postprocessing.py, and
\* neither raises
C29_MultiplicationsAgree ==
    (general_result # NotCalled /\ post_result # NotCalled) =>
        /\ general_result = post_result
        /\ general_result # ValueError

----------------------------------------------------------------------------
(* Properties of the composer and of the scalar-multiplication loop        *)

\* every operation of the current addition has been applied
AtReturn == driver \in {"stages", "loop"} /\ bitI < m /\ pc = Len(Program) + 1

\* the three composer stages have run
AfterStages == driver \in {"stages", "loop"} /\ bitI < m /\ pc > Len(Stages(current_Q))

\* the ancilla blocks were all zero when the current addition started
EntryClean == \A t \in Ancillas : entry[t] = 0

\* C2 (as claimed): after a full controlled addition with control = 1 and zero
\* ancillas beforehand, all 8 ancilla blocks are zero again
C2_AncillasZeroOnReturn ==
    (driver = "loop" /\ AtReturn /\ Control /\ EntryClean)
        => \A t \in Ancillas : reg[t] = 0

\* C3 (as claimed): accumulator 2P, selector k = 3: the loop leaves the
\* accumulator at the affine point 5P
C3_ChainYields5P ==
    (driver = "loop" /\ m = ChainKBits /\ bitI = m /\ kval = 3)
        => Affine(reg["X1"], reg["Y1"], reg["Z1"], N)
             = ClassicalScalarMult(ChainStartIdx + 3, P_base, N, curveA)

\* the inputs of test_full_addition_and_cleanup: (4, 8, 1) + (11, 5) mod 13
Step3Inputs ==
    /\ driver = "stages" /\ AtReturn
    /\ entry["X1"] = 4 /\ entry["Y1"] = 8 /\ entry["Z1"] = 1
    /\ current_Q = <<11, 5>>

\* C8: for p = 13, (X, Y, Z) = (4, 8, 1) and the constant (11, 5) the three
\* stages give X3 = 2, Y3 = 2, Z3 = 7 mod 13, the affine point (8, 3), which is
\* the classical sum of the two points
C8_StagesExample ==
    Step3Inputs =>
        /\ reg["T6"] % N = 2
        /\ reg["T7"] % N = 2
        /\ reg["T1"] % N = 7
        /\ Affine(reg["T6"], reg["T7"], reg["T1"], N) = <<8, 3>>
        /\ ClassicalAdd(<<4, 8>>, <<11, 5>>, N, curveA) = <<8, 3>>

C8_Witness == Step3Inputs /\ reg["T6"] = 41 /\ reg["T7"] = 15 /\ reg["T1"] = 7

\* the accumulator at entry represents an affine point with another x than
\* the constant point (so the points are distinct and not opposite)
EntryAffine == Affine(entry["X1"], entry["Y1"], entry["Z1"], N)

\* C9 (as claimed): for an accumulator representing an affine point distinct
\* from the constant point, and no sum exceeding the register range, the
\* controlled addition leaves the classical sum in the accumulator
C9_GateAddsPoints ==
    (/\ driver = "loop" /\ m = 1 /\ AtReturn /\ Control /\ EntryClean
     /\ EntryAffine # Inf /\ EntryAffine[1] # current_Q[1]
     /\ ~wrapHi)
        => Affine(reg["X1"], reg["Y1"], reg["Z1"], N)
             = ClassicalAdd(EntryAffine, current_Q, N, curveA)

\* C10: after the three stages on zero ancillas, the blocks of H, H^2, R, V
\* and tmp (T2, T3, T4, T5, T8) are zero, whatever the points
C10_ScratchZero ==
    (AfterStages /\ Control /\ EntryClean)
        => \A t \in {"T2", "T3", "T4", "T5", "T8"} : reg[t] = 0

C10_Witness ==
    /\ AfterStages /\ Control /\ EntryClean
    /\ reg["T1"] # 0 /\ reg["T6"] # 0 /\ reg["T7"] # 0
    /\ wrapLo

\* the double-and-add loop of test_ecc_step8.py is running
ChainRun == driver = "loop" /\ m = ChainKBits

\* C14: the loop over an m-qubit selector makes exactly m controlled additions
\* in the order i = 0..m-1; the i-th adds the constant point 2^i * BasePoint,
\* obtained by i classical doublings, and acts only if selector bit i is 1.
C14_LoopAddsDoublings ==
    ChainRun =>
        /\ bitI \in 0..m
        /\ pc \in 1..(Len(Program) + 1)
        /\ (bitI = m => pc = 1)
        /\ current_Q = ClassicalPointMult("postprocessing", 2^bitI, P_base, N, curveA)
        /\ (AtReturn => (reg # entry <=> Bit(kval, bitI) = 1))

\* the third addition (i = 2) has run, with the constant 4 * BasePoint
C14_Witness ==
    /\ ChainRun /\ bitI = ChainKBits - 1 /\ AtReturn /\ Control
    /\ current_Q # P_base
    /\ current_Q = ClassicalPointDoubling(ClassicalPointDoubling(P_base, N, curveA), N, curveA)
    /\ reg # entry

\* C15: the addition for selector bit i is the 1-control variant: while
\* selector bit i is 0, no step of the i-th addition changes X, Y, Z or any
\* ancilla block, and no step at all changes the selector register.
C15_ControlZeroFrame ==
    [][/\ (driver = "loop" /\ bitI < m /\ Bit(kval, bitI) = 0 /\ bitI' = bitI)
            => (reg' = reg /\ reg = entry)
       /\ kval' = kval]_vars

\* an addition with selector bit 0 has been passed, on ancillas that an
\* earlier addition left non-zero
C15_Witness ==
    /\ ChainRun /\ bitI = 1 /\ Bit(kval, bitI) = 0 /\ AtReturn
    /\ reg = entry /\ reg["T6"] # 0 /\ reg["Z1"] # 0

\* the operands of the current addition are coincident, or one is the point
\* at infinity
Degenerate == EntryAffine = current_Q \/ EntryAffine = Inf \/ current_Q = Inf

\* C17 (as claimed): the generic addition is never synthesised and applied on
\* coincident operands or on a point at infinity (the construction is rejected)
C17_DegenerateRejected ==
    ~(driver = "loop" /\ AtReturn /\ Control /\ EntryClean /\ Degenerate)

\* the controlled additions of one build_scalar_mult_circuit call, as claimed:
\* for i = 0..m-1, control qubit k_regs[i], constant 2^i * point
ExpectedLoop(k_regs, point) ==
    [ii \in 1..num_ctrl_qubits |->
        ControlledAdd(k_regs, ii - 1,
                      ClassicalPointMult("verify_qday", 2^(ii - 1), point, N, curveA),
                      ArithN)]

\* the operation list with the accumulator initialisation given
ExpectedCircuit(init_ops) ==
    <<Hadamard("reg_a"), Hadamard("reg_b")>>
    \o init_ops
    \o ExpectedLoop("reg_a", base_P)
    \o ExpectedLoop("reg_b", base_Q)
    \o <<InverseQft("reg_a"), InverseQft("reg_b")>>
    \o <<Measure("reg_a"), Measure("reg_b")>>

\* C16 (as claimed): every call of construct_circuit assembles, in this order,
\* the Hadamards on reg_a and reg_b, the initialisation Z = 1, the m additions
\* controlled by reg_a against the multiples of P, the m additions controlled
\* by reg_b against the multiples of Q (same accumulator, same 8n ancillas),
\* the inverse QFT on reg_a and reg_b, and the measurement of reg_a and reg_b.
C16_AssemblyOrder ==
    phase = "returned" => qc = ExpectedCircuit(<<SetZ1>>)

\* C16 (amended): the same order, where the initialisation Z = 1 is emitted by
\* verify_qday.py always and by shor_ecdlp.py only when initial_point_Z1 is 1
\* (the default); with another value no initialisation is emitted.
C16_AssemblyOrderWithOption ==
    phase = "returned" =>
        qc = ExpectedCircuit(IF shor_file = "verify_qday" \/ initial_point_Z1 = 1
                             THEN <<SetZ1>> ELSE <<>>)

\* a returned circuit with the default initialisation and three additions per
\* selector register
C16_Witness ==
    /\ phase = "returned" /\ shor_file = "shor_ecdlp" /\ initial_point_Z1 = 1
    /\ num_ctrl_qubits = MaxCtrl
    /\ Len(qc) = 2 * MaxCtrl + 7
    /\ qc[3] = SetZ1
    /\ qc[3 + MaxCtrl].reg = "reg_a" /\ qc[4 + MaxCtrl].reg = "reg_b"
    /\ qc[Len(qc)] = Measure("reg_b")

\* the run of test_ecc_step4.py: the gate for (11, 5) has been applied with
\* control 1 to the accumulator (11, 5, 1)
Step4Run ==
    /\ driver = "loop" /\ m = 1 /\ AtReturn /\ Control /\ EntryClean
    /\ current_Q = Step4PBase
    /\ entry["X1"] = Step4PBase[1] /\ entry["Y1"] = Step4PBase[2] /\ entry["Z1"] = 1

\* C22 (as claimed): the gate built for P = (11, 5) on p = 13, a = 0, applied
\* with control 1 to the accumulator (11, 5, 1), leaves in X and Y the
\* coordinates of the classical double 2P of _classical_point_doubling
C22_GateDoublesP ==
    Step4Run => <<reg["X1"], reg["Y1"]>> = ClassicalPointDoubling(Step4PBase, N, curveA)

\* calculate_H_R has run on zero scratch
AfterHR ==
    /\ driver \in {"stages", "loop"} /\ bitI < m /\ Control /\ EntryClean
    /\ pc = Len(CalculateHR(current_Q)) + 1

\* calculate_H_R and calculate_Z3_and_cleanup have run on zero scratch
AfterZ3 ==
    /\ driver \in {"stages", "loop"} /\ bitI < m /\ Control /\ EntryClean
    /\ pc = Len(CalculateHR(current_Q)) + Len(CalculateZ3AndCleanup) + 1

\* no phase addition of the current point addition left the register range
SumsFit == ~wrapHi /\ ~wrapLo

\* H = x2 Z1^2 - X1 and R = y2 Z1^3 - Y1 mod p, of the entry values
HValue == (current_Q[1] * entry["Z1"] * entry["Z1"] - entry["X1"]) % N
RValue == (current_Q[2] * entry["Z1"] * entry["Z1"] * entry["Z1"] - entry["Y1"]) % N

\* the inputs of test_H_R_calculation and test_Z3_and_cleanup:
\* (4, 8, 1) and the constant (11, 5) mod 13
Step1Inputs ==
    /\ N = 13 /\ entry["X1"] = 4 /\ entry["Y1"] = 8 /\ entry["Z1"] = 1
    /\ current_Q = <<11, 5>>

\* C24: after calculate_H_R on zero scratch, T2 is congruent mod p to
\* H = x2 Z1^2 - X1 and T4 to R = y2 Z1^3 - Y1, for every accumulator and
\* constant whose sums fit the register widths
C24_HRCongruent ==
    (AfterHR /\ SumsFit) => (reg["T2"] % N = HValue /\ reg["T4"] % N = RValue)

\* p = 13, (4, 8, 1) and (11, 5): H = 7 and R = 10 mod 13
C24_Witness ==
    /\ AfterHR /\ SumsFit /\ Step1Inputs
    /\ reg["T2"] % N = 7 /\ reg["T4"] % N = 10
    /\ HValue = 7 /\ RValue = 10

ScratchBlocks == {"T1", "T2", "T3", "T4", "T5", "T8"}

\* the register values before each operation of ops and after the last one,
\* starting from vals: a sequence of Len(ops) + 1 valuations
RECURSIVE Extend(_, _)
Extend(ops, acc) ==
    IF Len(acc) > Len(ops) THEN acc
    ELSE Extend(ops, Append(acc, Run(OpGates(ops[Len(acc)]), wid, acc[Len(acc)])))

Trajectory(ops, vals) == Extend(ops, <<vals>>)

\* the positions of the forward operations on block t among the first i
\* operations that have no inverse yet, oldest first
RECURSIVE StackAfter(_, _, _)
StackAfter(ops, t, i) ==
    IF i = 0 THEN <<>>
    ELSE LET st == StackAfter(ops, t, i - 1)
         IN  IF ops[i].out # t THEN st
             ELSE IF ~ops[i].inv THEN Append(st, i)
             ELSE IF Len(st) = 0 THEN st
             ELSE SubSeq(st, 1, Len(st) - 1)

\* the three stages have just run with control 1 on zero scratch
StagesDone ==
    /\ driver \in {"stages", "loop"} /\ bitI < m /\ Control /\ EntryClean
    /\ pc = Len(Stages(current_Q)) + 1

\* the inverse operation at position j on block t undoes the most recent
\* forward operation on t not yet undone: the same primitive with the same
\* scalar, reading source values equal to those read at compute time, and
\* leaving in t the value it had before that forward operation
UndoesLastWrite(ops, traj, t, j) ==
    LET st == StackAfter(ops, t, j - 1)
        i == st[Len(st)]
    IN  /\ Len(st) > 0
        /\ ops[i].op = ops[j].op /\ ops[i].k = ops[j].k
        /\ traj[i][ops[i].a] = traj[j][ops[j].a]
        /\ traj[i][ops[i].b] = traj[j][ops[j].b]
        /\ traj[j + 1][t] = traj[i][t]

\* C23: in the composer every scratch block is uncomputed by a stack
\* discipline: each inverse operation on a block of Z^2, Z^3, H^2, V, tmp, H
\* or R is the inverse form of the latest forward operation on it not yet
\* undone (so in exactly reversed order), reads source values equal to those
\* at compute time, and once all its writes are undone the block is zero,
\* before it is written again and at the end (T1 alone keeps its last write, Z3)
C23_StackDiscipline ==
    StagesDone =>
        LET ops == Stages(current_Q)
            traj == Trajectory(ops, entry)
        IN  /\ traj[Len(ops) + 1] = reg
            /\ \A t \in ScratchBlocks :
                  /\ \A j \in 1..Len(ops) :
                        ops[j].out = t =>
                          /\ (ops[j].inv => UndoesLastWrite(ops, traj, t, j))
                          /\ (Len(StackAfter(ops, t, j)) = 0 => traj[j + 1][t] = 0)
                          /\ (Len(StackAfter(ops, t, j - 1)) = 0 => traj[j][t] = 0)
                  /\ Len(StackAfter(ops, t, Len(ops))) = (IF t = "T1" THEN 1 ELSE 0)

\* test_full_addition_and_cleanup: every block has been written and undone;
\* T3 held Z^3 and later H^2, T5 held V and later Z^3, T8 tmp and later Z^2
C23_Witness ==
    /\ StagesDone /\ Step1Inputs /\ driver = "stages"
    /\ \A t \in ScratchBlocks \ {"T1"} : reg[t] = 0
    /\ LET traj == Trajectory(Stages(current_Q), entry)
       IN  /\ traj[4]["T3"] # 0 /\ traj[9]["T3"] = 0 /\ traj[11]["T3"] # 0
           /\ traj[3]["T1"] # 0 /\ traj[9]["T1"] = 0 /\ traj[10]["T1"] # 0
           /\ traj[12]["T5"] # 0 /\ traj[19]["T8"] # 0

\* the discrete logarithm of a point of the group generated by table_P
LogOf(point) ==
    CHOOSE d \in 0..(QdayOrder - 1) :
        ClassicalPointMult("verify_qday", d, table_P, N, curveA) = point

\* the classical point aP + bQ, through the group law: (a + b log Q) P
ClassicalSum(ab) ==
    ClassicalPointMult("verify_qday", (ab[1] + ab[2] * LogOf(table_Q)) % QdayOrder,
                       table_P, N, curveA)

\* C21: for every pair of selector basis values (a, b), with x and y zero
\* beforehand, the lookup-table oracle leaves in x and y the affine
\* coordinates of the classical point aP + bQ (both zero for the point at
\* infinity) and leaves the selector registers at a and b
C21_OracleWritesSum ==
    ostep = "returned" =>
        /\ <<reg["qx"], reg["qy"]>> =
              (IF ClassicalSum(start_ab) = Inf THEN <<0, 0>> ELSE ClassicalSum(start_ab))
        /\ reg["qa"] = start_ab[1] /\ reg["qb"] = start_ab[2]

\* P = (11, 5), Q = 6P, a = 2, b = 1: 2P + 6P = 8P = P, so x = 11 and y = 5
C21_Witness ==
    /\ ostep = "returned" /\ n_ctrl = 2 /\ table_Q = QdayQ
    /\ start_ab = <<2, 1>>
    /\ reg["qa"] = 2 /\ reg["qb"] = 1
    /\ reg["qx"] = 11 /\ reg["qy"] = 5

=============================================================================
